---- MODULE Spec2Model ----
(***************************************************************************)
(* The multi-level cache of src/generate_content/performance_cache.py:     *)
(* PerformanceCache with its memory tier (a dict in insertion order plus   *)
(* current_memory_size), the Django cache behind django.core.cache.cache,  *)
(* and the pickle files under cache_dir.                                   *)
(*                                                                         *)
(* Strings that the code inspects (cache keys, namespaces, file names) are *)
(* sequences of one-character strings, so that startswith and glob are     *)
(* computed on characters.  Sizes are bytes, times are seconds.            *)
(***************************************************************************)
EXTENDS Integers, Sequences, FiniteSets, TLC

VARIABLES
    memory_cache,         \* self.memory_cache: the dict, as the sequence of its entries in insertion order
    current_memory_size,  \* self.current_memory_size
    cache_stats,          \* self.cache_stats
    django,               \* the Django cache backend: cache key -> NoDjangoEntry or [data, expires_at]
    files,                \* cache_dir: cache key -> NoFile, CorruptFile or the pickled CacheEntry of <cache_key>.pkl
    now,                  \* datetime.now(), in seconds
    last,                 \* the most recent call of the public API: its arguments and what it returned
    set_log,              \* cache key -> the time and ttl of the latest set call for it
    ncalls,               \* number of public API calls made so far
    threads,              \* thread -> the frame of the call it is running, for calls that run step by step
    write_log,            \* cache key -> how many step-by-step set calls have started and returned, and the latest value
    lock                  \* self._lock: the thread that owns the RLock and how many times it has acquired it

vars == <<memory_cache, current_memory_size, cache_stats, django, files, now, last, set_log, ncalls,
          threads, write_log, lock>>

\* the state of the calls that run step by step
thread_vars == <<threads, write_log, lock>>

----------------------------------------------------------------------------
(* Bounds of the exploration *)

MaxCalls == 2         \* calls in Spec
MaxTime == 1          \* clock range in Spec
MaxFaultCalls == 2    \* calls in SpecFaults
MaxLruCalls == 3      \* calls in SpecLru
MaxLruTime == 1       \* clock range in SpecLru
MaxPromoteCalls == 3  \* calls in SpecPromote
MaxExpiryCalls == 4   \* calls in SpecExpiry
MaxExpiryTime == 2    \* clock range in SpecExpiry
MaxFillCalls == 5     \* calls in SpecFill
MaxDeleteCalls == 3   \* calls in SpecDelete
MaxStatsCalls == 5    \* calls in SpecStats
MaxHitCalls == 3      \* calls in SpecHit
MaxHitTime == 2       \* clock range in SpecHit
MaxKeyCalls == 2      \* calls in SpecKey
MaxCachedCalls == 4   \* calls of get and set in SpecCached
MaxThreadCalls == 4   \* calls begun by the threads in SpecThreads
MaxCleanupCalls == 3  \* calls in SpecCleanup
MaxCleanupTime == 2   \* the clock's last second in SpecCleanup
MaxLockCalls == 2     \* calls made in SpecLock

----------------------------------------------------------------------------
(* Strings *)

NsGemini == <<"g","e","m","i","n","i","_","r","e","s","p","o","n","s","e","s">>
NsTemplateData == <<"t","e","m","p","l","a","t","e","_","d","a","t","a">>
NsPresentation == <<"p","r","e","s","e","n","t","a","t","i","o","n","_","m","e","t","a","d","a","t","a">>
NsUserPrefs == <<"u","s","e","r","_","p","r","e","f","e","r","e","n","c","e","s">>
NsFontValidation == <<"f","o","n","t","_","v","a","l","i","d","a","t","i","o","n">>
NsTemplate == <<"t","e","m","p","l","a","t","e">>

\* str.startswith
startswith(s, p) == Len(p) <= Len(s) /\ SubSeq(s, 1, Len(p)) = p

\* str.endswith
endswith(s, p) == Len(p) <= Len(s) /\ SubSeq(s, Len(s) - Len(p) + 1, Len(s)) = p

\* the pattern taken as a file name, its star matching nothing but itself
glob_match_literal(name, prefix, suffix) == name = prefix \o <<"*">> \o suffix

\* Path.glob of a pattern "<prefix>*<suffix>" holding one star: the star matches any run of characters
glob_match(name, prefix, suffix) ==
    /\ Len(name) >= Len(prefix) + Len(suffix)
    /\ startswith(name, prefix)
    /\ endswith(name, suffix)

PklSuffix == <<".","p","k","l">>

\* file_path = self.cache_dir / f"{cache_key}.pkl"
file_name(cache_key) == cache_key \o PklSuffix

----------------------------------------------------------------------------
(* Inputs *)

\* key_data: a str, an int, a dict as the sequence of its <<key, value>> items in
\* insertion order, a list, or an object the json module has no encoding for
Str(chars) == [type |-> "str", chars |-> chars]
IntKey(n) == [type |-> "int", n |-> n]
Dict(items) == [type |-> "dict", items |-> items]
List(elems) == [type |-> "list", elems |-> elems]
Object == [type |-> "object"]

\* the template ids the callers pass as key_data
k1 == Str(<<"k","1">>)
k2 == Str(<<"k","2">>)
KeyData == {k1, k2}

\* ord(c) of the characters that occur in dict keys
ord(c) ==
    CASE c = "B" -> 66
      [] c = "a" -> 97
      [] c = "b" -> 98
      [] c = "c" -> 99
      [] c = "d" -> 100
      [] c = "f" -> 102
      [] c = "g" -> 103
      [] c = "k" -> 107
      [] c = "n" -> 110
      [] c = "r" -> 114
      [] c = "s" -> 115
      [] c = "u" -> 117
      [] c = "w" -> 119

\* a < b on str: the first differing character decides, a proper prefix is smaller
RECURSIVE str_lt(_, _)
str_lt(a, b) ==
    IF a = <<>> THEN b # <<>>
    ELSE IF b = <<>> THEN FALSE
    ELSE IF ord(Head(a)) # ord(Head(b)) THEN ord(Head(a)) < ord(Head(b))
    ELSE str_lt(Tail(a), Tail(b))

\* sorted(dct.items()): the items in ascending order of their keys
RECURSIVE sorted_by_key(_)
sorted_by_key(items) ==
    IF items = <<>> THEN <<>>
    ELSE LET rest == sorted_by_key(SubSeq(items, 1, Len(items) - 1))
             x == items[Len(items)]
             k == Cardinality({i \in 1..Len(rest) : ~str_lt(x[1], rest[i][1])})
         IN SubSeq(rest, 1, k) \o <<x>> \o SubSeq(rest, k + 1, Len(rest))

\* the items in insertion order, as sort_keys=False writes them
dict_items_unsorted(items) == items

\* the order in which json.dumps(..., sort_keys=True) writes the items of a dict
dict_items(items) == sorted_by_key(items)

\* str(n) for n >= 0
RECURSIVE int_digits(_)
int_digits(n) == IF n < 10 THEN <<ToString(n)>> ELSE int_digits(n \div 10) \o <<ToString(n % 10)>>

\* a str between double quotes (the characters used need no escape)
json_quote(chars) == <<"\"">> \o chars \o <<"\"">>

\* json.dumps(v, sort_keys=True) with the default separators ", " and ": "
RECURSIVE json_dumps(_), json_dumps_items(_), json_dumps_elems(_)
json_dumps(v) ==
    CASE v.type = "str" -> json_quote(v.chars)
      [] v.type = "int" -> int_digits(v.n)
      [] v.type = "dict" -> <<"{">> \o json_dumps_items(dict_items(v.items)) \o <<"}">>
      [] v.type = "list" -> <<"[">> \o json_dumps_elems(v.elems) \o <<"]">>

json_dumps_items(items) ==
    IF items = <<>> THEN <<>>
    ELSE json_quote(Head(items)[1]) \o <<":", " ">> \o json_dumps(Head(items)[2])
         \o (IF Len(items) > 1 THEN <<",", " ">> \o json_dumps_items(Tail(items)) ELSE <<>>)

json_dumps_elems(elems) ==
    IF elems = <<>> THEN <<>>
    ELSE json_dumps(Head(elems))
         \o (IF Len(elems) > 1 THEN <<",", " ">> \o json_dumps_elems(Tail(elems)) ELSE <<>>)

\* json.dumps raises TypeError on a value it has no encoding for, at any depth
RECURSIVE json_serializable(_)
json_serializable(v) ==
    CASE v.type = "dict" -> \A i \in 1..Len(v.items) : json_serializable(v.items[i][2])
      [] v.type = "list" -> \A i \in 1..Len(v.elems) : json_serializable(v.elems[i])
      [] v.type = "object" -> FALSE
      [] OTHER -> TRUE

\* hashlib.sha256(key_string.encode()).hexdigest()[:16] of the key strings that occur
sha256_hex16(key_string) ==
    CASE key_string = <<"k","1">> ->
             <<"6","a","b","9","f","1","e","b","8","f","7","d","3","3","8","8">>
      [] key_string = <<"k","2">> ->
             <<"0","1","5","f","7","e","6","b","c","5","a","e","a","f","4","8">>
      [] key_string = <<"{","\"","B","\"",":"," ","1",","," ","\"","a","\"",":"," ","[","{","\"","c","\"",":"," ","1",","," ","\"","d","\"",":"," ","2","}","]",","," ","\"","a","b","\"",":"," ","\"","x","\"","}">> ->
             <<"a","c","d","0","c","0","5","1","e","1","a","e","9","6","0","2">>
      [] key_string = <<"{","\"","B","\"",":"," ","1",","," ","\"","a","b","\"",":"," ","\"","x","\"",","," ","\"","a","\"",":"," ","[","{","\"","c","\"",":"," ","1",","," ","\"","d","\"",":"," ","2","}","]","}">> ->
             <<"1","3","5","c","9","1","a","e","7","c","d","8","8","1","1","e">>
      [] key_string = <<"{","\"","a","\"",":"," ","[","{","\"","c","\"",":"," ","1",","," ","\"","d","\"",":"," ","2","}","]",","," ","\"","B","\"",":"," ","1",","," ","\"","a","b","\"",":"," ","\"","x","\"","}">> ->
             <<"f","d","8","7","0","5","d","2","a","3","0","6","d","e","4","6">>
      [] key_string = <<"{","\"","a","\"",":"," ","[","{","\"","c","\"",":"," ","1",","," ","\"","d","\"",":"," ","2","}","]",","," ","\"","a","b","\"",":"," ","\"","x","\"",","," ","\"","B","\"",":"," ","1","}">> ->
             <<"9","0","9","4","6","b","6","c","e","d","7","a","1","f","f","8">>
      [] key_string = <<"{","\"","a","b","\"",":"," ","\"","x","\"",","," ","\"","B","\"",":"," ","1",","," ","\"","a","\"",":"," ","[","{","\"","c","\"",":"," ","1",","," ","\"","d","\"",":"," ","2","}","]","}">> ->
             <<"0","0","8","d","b","b","d","7","2","1","0","9","4","9","6","9">>
      [] key_string = <<"{","\"","a","b","\"",":"," ","\"","x","\"",","," ","\"","a","\"",":"," ","[","{","\"","c","\"",":"," ","1",","," ","\"","d","\"",":"," ","2","}","]",","," ","\"","B","\"",":"," ","1","}">> ->
             <<"6","1","8","f","2","3","6","d","8","6","b","5","f","7","6","2">>
      [] key_string = <<"{","\"","B","\"",":"," ","1",","," ","\"","a","\"",":"," ","[","{","\"","d","\"",":"," ","2",","," ","\"","c","\"",":"," ","1","}","]",","," ","\"","a","b","\"",":"," ","\"","x","\"","}">> ->
             <<"c","6","2","8","4","b","c","b","b","c","0","d","5","c","3","8">>
      [] key_string = <<"{","\"","B","\"",":"," ","1",","," ","\"","a","b","\"",":"," ","\"","x","\"",","," ","\"","a","\"",":"," ","[","{","\"","d","\"",":"," ","2",","," ","\"","c","\"",":"," ","1","}","]","}">> ->
             <<"c","9","b","3","6","0","7","9","4","8","0","9","5","0","5","7">>
      [] key_string = <<"{","\"","a","\"",":"," ","[","{","\"","d","\"",":"," ","2",","," ","\"","c","\"",":"," ","1","}","]",","," ","\"","B","\"",":"," ","1",","," ","\"","a","b","\"",":"," ","\"","x","\"","}">> ->
             <<"3","f","2","3","f","9","8","e","d","5","2","4","6","d","5","4">>
      [] key_string = <<"{","\"","a","\"",":"," ","[","{","\"","d","\"",":"," ","2",","," ","\"","c","\"",":"," ","1","}","]",","," ","\"","a","b","\"",":"," ","\"","x","\"",","," ","\"","B","\"",":"," ","1","}">> ->
             <<"3","2","c","1","a","e","4","6","6","0","c","4","2","1","f","c">>
      [] key_string = <<"{","\"","a","b","\"",":"," ","\"","x","\"",","," ","\"","B","\"",":"," ","1",","," ","\"","a","\"",":"," ","[","{","\"","d","\"",":"," ","2",","," ","\"","c","\"",":"," ","1","}","]","}">> ->
             <<"6","c","5","1","8","4","f","3","3","f","4","b","e","d","2","b">>
      [] key_string = <<"{","\"","a","b","\"",":"," ","\"","x","\"",","," ","\"","a","\"",":"," ","[","{","\"","d","\"",":"," ","2",","," ","\"","c","\"",":"," ","1","}","]",","," ","\"","B","\"",":"," ","1","}">> ->
             <<"3","b","8","6","5","c","8","7","e","5","2","7","0","2","b","6">>
      [] key_string = <<"{","\"","a","\"",":"," ","1",","," ","\"","B","\"",":"," ","2","}">> ->
             <<"8","a","3","1","9","1","b","6","4","0","c","b","e","0","8","0">>
      [] key_string = <<"{","\"","B","\"",":"," ","2",","," ","\"","a","\"",":"," ","1","}">> ->
             <<"3","5","6","2","d","8","a","d","1","5","1","c","9","c","c","f">>
      [] key_string = <<"[","1",","," ","\"","x","\"","]">> ->
             <<"2","3","b","7","8","8","e","c","0","c","d","2","2","c","c","9">>
      [] key_string = <<"[","\"","x","\"",","," ","1","]">> ->
             <<"3","8","e","3","7","c","b","9","8","8","0","8","b","9","c","c">>
      [] key_string = <<"{","\"","a","r","g","s","\"",":"," ","\"","(",")","\"",","," ","\"","f","u","n","c","\"",":"," ","\"","f","\"",","," ","\"","k","w","a","r","g","s","\"",":"," ","\"","[","]","\"","}">> ->
             <<"f","a","1","5","1","b","e","5","b","e","f","2","7","9","5","6">>
      [] key_string = <<"{","\"","a","r","g","s","\"",":"," ","\"","(","1",",",")","\"",","," ","\"","f","u","n","c","\"",":"," ","\"","f","\"",","," ","\"","k","w","a","r","g","s","\"",":"," ","\"","[","]","\"","}">> ->
             <<"e","3","4","6","d","0","c","8","9","2","1","a","a","8","4","5">>
      [] key_string = <<"{","\"","a","r","g","s","\"",":"," ","\"","(",")","\"",","," ","\"","f","u","n","c","\"",":"," ","\"","g","\"",","," ","\"","k","w","a","r","g","s","\"",":"," ","\"","[","]","\"","}">> ->
             <<"9","a","f","7","8","7","f","0","7","5","d","9","3","1","f","7">>
      [] key_string = <<"{","\"","a","r","g","s","\"",":"," ","\"","(","1",",",")","\"",","," ","\"","f","u","n","c","\"",":"," ","\"","g","\"",","," ","\"","k","w","a","r","g","s","\"",":"," ","\"","[","]","\"","}">> ->
             <<"6","b","e","f","9","8","6","6","2","0","3","6","7","8","b","6">>
      [] key_string = <<"{","\"","f","u","n","c","\"",":"," ","\"","f","\"",","," ","\"","a","r","g","s","\"",":"," ","\"","(",")","\"",","," ","\"","k","w","a","r","g","s","\"",":"," ","\"","[","]","\"","}">> ->
             <<"b","7","3","4","b","4","c","a","2","2","8","7","5","f","b","c">>
      [] key_string = <<"{","\"","f","u","n","c","\"",":"," ","\"","f","\"",","," ","\"","a","r","g","s","\"",":"," ","\"","(","1",",",")","\"",","," ","\"","k","w","a","r","g","s","\"",":"," ","\"","[","]","\"","}">> ->
             <<"e","4","7","2","9","5","2","8","9","c","3","8","8","d","7","2">>
      [] key_string = <<"{","\"","f","u","n","c","\"",":"," ","\"","g","\"",","," ","\"","a","r","g","s","\"",":"," ","\"","(",")","\"",","," ","\"","k","w","a","r","g","s","\"",":"," ","\"","[","]","\"","}">> ->
             <<"0","6","b","4","2","1","3","7","d","2","b","1","2","2","7","1">>
      [] key_string = <<"{","\"","f","u","n","c","\"",":"," ","\"","g","\"",","," ","\"","a","r","g","s","\"",":"," ","\"","(","1",",",")","\"",","," ","\"","k","w","a","r","g","s","\"",":"," ","\"","[","]","\"","}">> ->
             <<"6","f","5","0","5","8","a","0","6","b","6","d","d","f","b","d">>

\* every order in which the items of a dict can have been inserted
Orders(items) ==
    { [i \in 1..Len(items) |-> items[p[i]]] : p \in Permutations(1..Len(items)) }

\* dict key data as gemini_service builds it, a dict nested in a list nested in a dict:
\* {"B": 1, "a": [{"c": 1, "d": 2}], "ab": "x"} and {"a": 1, "B": 2} in every insertion
\* order, at both depths
MappingKeyData ==
    { Dict(top) :
        top \in UNION { Orders(<< <<<<"B">>, IntKey(1)>>,
                                  <<<<"a">>, List(<<Dict(inner)>>)>>,
                                  <<<<"a","b">>, Str(<<"x">>)>> >>) :
                        inner \in Orders(<< <<<<"c">>, IntKey(1)>>, <<<<"d">>, IntKey(2)>> >>) } }
    \cup { Dict(top) : top \in Orders(<< <<<<"a">>, IntKey(1)>>, <<<<"B">>, IntKey(2)>> >>) }

\* list key data: [1, "x"] and ["x", 1]
ListKeyData == { List(<<IntKey(1), Str(<<"x">>)>>), List(<<Str(<<"x">>), IntKey(1)>>) }

\* key data json.dumps cannot serialize: {"a": <object>}
UnserializableKeyData == { Dict(<< <<<<"a">>, Object>> >>) }

\* the functions wrapped by cached: two of the same __name__ defined in different
\* modules, and one of another name
WrappedFunctions == { [module |-> "a", name |-> <<"f">>],
                      [module |-> "b", name |-> <<"f">>],
                      [module |-> "a", name |-> <<"g">>] }

\* str(args) of the calls: "()" and "(1,)"; the calls pass no keyword arguments
ArgTuples == { <<"(",")">>, <<"(","1",",",")">> }

\* {'func': func.__name__, 'args': str(args), 'kwargs': str(sorted(kwargs.items()))}
default_key_data(func, args) ==
    Dict(<< <<<<"f","u","n","c">>, Str(func.name)>>,
            <<<<"a","r","g","s">>, Str(args)>>,
            <<<<"k","w","a","r","g","s">>, Str(<<"[","]">>)>> >>)

\* the payloads: "A" pickles to 10 MB, "B" to 50 MB; None ("None") pickles to 4 bytes
\* and the empty str ("") to 15
Values == {"A", "B"}

pickled_len(data) ==
    CASE data = "A" -> 10 * 1024 * 1024
      [] data = "B" -> 50 * 1024 * 1024
      [] data = "None" -> 4
      [] data = "" -> 15

\* ttl argument of set: <<>> for None, <<t>> for t seconds
NoTtl == <<>>
Ttls == {NoTtl, <<1>>}

\* the (namespace, key_data) pairs the callers use
Requests == { <<NsGemini, k1>>, <<NsGemini, k2>>, <<NsTemplateData, k1>> }

\* the namespaces clear_namespace is called with
Namespaces == {NsGemini, NsTemplateData, NsTemplate}

\* get's default argument
Default == "None"

----------------------------------------------------------------------------
(* PerformanceCache.__init__ *)

max_memory_size == 100 * 1024 * 1024

ConfiguredNamespaces == {NsGemini, NsTemplateData, NsPresentation, NsUserPrefs, NsFontValidation}

cache_config(ns) ==
    CASE ns = NsGemini         -> [ttl |-> 3600,  max_size |-> 50 * 1024 * 1024]
      [] ns = NsTemplateData   -> [ttl |-> 86400, max_size |-> 10 * 1024 * 1024]
      [] ns = NsPresentation   -> [ttl |-> 7200,  max_size |-> 5 * 1024 * 1024]
      [] ns = NsUserPrefs      -> [ttl |-> 3600,  max_size |-> 1 * 1024 * 1024]
      [] ns = NsFontValidation -> [ttl |-> 86400, max_size |-> 1024 * 1024]

\* config.get('ttl', 3600)
config_ttl(ns) == IF ns \in ConfiguredNamespaces THEN cache_config(ns).ttl ELSE 3600

\* config.get('max_size', 10 * 1024 * 1024)
config_max_size(ns) == IF ns \in ConfiguredNamespaces THEN cache_config(ns).max_size ELSE 10 * 1024 * 1024

\* the ttl parameter default of _set_memory_cache, _set_django_cache and _set_file_cache
DefaultTtl == 3600

----------------------------------------------------------------------------
(* CacheEntry *)

CacheEntry(data, t, ttl, size_bytes, cache_key) ==
    [data |-> data, created_at |-> t, accessed_at |-> t, access_count |-> 0,
     ttl |-> ttl, size_bytes |-> size_bytes, cache_key |-> cache_key]

\* expired already at the instant created_at + ttl
is_expired_from_ttl(entry, t) == t >= entry.created_at + entry.ttl

\* datetime.now() > self.created_at + timedelta(seconds=self.ttl)
is_expired(entry, t) == t > entry.created_at + entry.ttl

update_access(entry, t) == [entry EXCEPT !.accessed_at = t, !.access_count = @ + 1]

----------------------------------------------------------------------------
(* Helpers of PerformanceCache *)

\* the TypeError of json.dumps leaves _generate_cache_key as an exception
key_raises(key_data) == key_data.type # "str" /\ ~json_serializable(key_data)

_generate_cache_key(ns, key_data) ==
    LET key_string == IF key_data.type = "str" THEN key_data.chars ELSE json_dumps(key_data)
        key_hash == sha256_hex16(key_string)
    IN ns \o <<":">> \o key_hash

_calculate_size(data) == pickled_len(data)

CacheKeys ==
    { _generate_cache_key(r[1], r[2]) : r \in Requests }
    \cup { _generate_cache_key(NsGemini, default_key_data(func, args)) :
              func \in WrappedFunctions, args \in ArgTuples }

\* cache_key in self.memory_cache
MemHas(cache, ck) == \E i \in 1..Len(cache) : cache[i].cache_key = ck

\* self.memory_cache[cache_key]
MemGet(cache, ck) == cache[CHOOSE i \in 1..Len(cache) : cache[i].cache_key = ck]

\* del self.memory_cache[cache_key]
MemDel(cache, ck) == SelectSeq(cache, LAMBDA e : e.cache_key # ck)

\* self.memory_cache[cache_key] = entry: a resident key keeps its place in the dict, a new one goes last
MemStore(cache, entry) ==
    IF MemHas(cache, entry.cache_key)
    THEN [cache EXCEPT ![CHOOSE i \in 1..Len(cache) : cache[i].cache_key = entry.cache_key] = entry]
    ELSE Append(cache, entry)

RECURSIVE SumSizes(_)
SumSizes(cache) == IF cache = <<>> THEN 0 ELSE Head(cache).size_bytes + SumSizes(Tail(cache))

\* sorted(self.memory_cache.items(), key=lambda x: x[1].accessed_at): stable, ascending
RECURSIVE sorted_items(_)
sorted_items(cache) ==
    IF cache = <<>> THEN <<>>
    ELSE LET rest == sorted_items(SubSeq(cache, 1, Len(cache) - 1))
             x == cache[Len(cache)]
             k == Cardinality({i \in 1..Len(rest) : rest[i].accessed_at <= x.accessed_at})
         IN SubSeq(rest, 1, k) \o <<x>> \o SubSeq(rest, k + 1, Len(rest))

----------------------------------------------------------------------------
(* The memory tier.  m is [cache, size, evictions]: self.memory_cache,     *)
(* self.current_memory_size and self.cache_stats['evictions'].             *)

\* the for loop of _evict_memory_cache over sorted_items
RECURSIVE evict_loop(_, _, _, _)
evict_loop(items, m, freed_size, required_size) ==
    IF items = <<>> \/ freed_size >= required_size THEN m
    ELSE LET entry == Head(items)
         IN evict_loop(Tail(items),
                       [cache |-> MemDel(m.cache, entry.cache_key),
                        size |-> m.size - entry.size_bytes,
                        evictions |-> m.evictions + 1,
                        evicted |-> Append(m.evicted, entry.cache_key)],
                       freed_size + entry.size_bytes,
                       required_size)

RECURSIVE Reverse(_)
Reverse(s) == IF s = <<>> THEN <<>> ELSE Append(Reverse(Tail(s)), Head(s))

\* most recently accessed first
eviction_order_mru(cache) == Reverse(sorted_items(cache))

\* the order in which _evict_memory_cache visits the entries
eviction_order(cache) == sorted_items(cache)

_evict_memory_cache(m, required_size) ==
    IF m.cache = <<>> THEN m
    ELSE evict_loop(eviction_order(m.cache), m, 0, required_size)

\* the statements of _set_memory_cache under the lock, once the size check has passed
store_entry(m, cache_key, data, data_size, ttl, t) ==
    LET m1 == IF m.size + data_size > max_memory_size
              THEN _evict_memory_cache(m, data_size)
              ELSE m
        entry == CacheEntry(data, t, ttl, data_size, cache_key)
    IN [cache |-> MemStore(m1.cache, entry),
        size |-> m1.size + data_size,
        evictions |-> m1.evictions,
        evicted |-> m1.evicted,
        ok |-> TRUE]

\* the size check made against the global budget instead of the namespace's max_size
_set_memory_cache_global_cap(m, cache_key, data, ns, ttl, t) ==
    LET data_size == _calculate_size(data)
        m0 == [cache |-> m.cache, size |-> m.size, evictions |-> m.evictions, evicted |-> <<>>]
    IN IF data_size > max_memory_size
       THEN [cache |-> m.cache, size |-> m.size, evictions |-> m.evictions,
             evicted |-> <<>>, ok |-> FALSE]
       ELSE store_entry(m0, cache_key, data, data_size, ttl, t)

\* returns the memory tier after the call, with ok the call's return value and
\* evicted the keys it evicted, in order
_set_memory_cache(m, cache_key, data, ns, ttl, t) ==
    LET data_size == _calculate_size(data)
        max_size == config_max_size(ns)
        m0 == [cache |-> m.cache, size |-> m.size, evictions |-> m.evictions, evicted |-> <<>>]
    IN IF data_size > max_size
       THEN [cache |-> m.cache, size |-> m.size, evictions |-> m.evictions,
             evicted |-> <<>>, ok |-> FALSE]
       ELSE store_entry(m0, cache_key, data, data_size, ttl, t)

----------------------------------------------------------------------------
(* The Django cache (django.core.cache.cache).  The backend enforces the   *)
(* timeout itself; dj_up = FALSE is a call that raises.                    *)

\* cache.get returns None
NoValue == "None"

\* no value stored under the key
NoDjangoEntry == [stored |-> FALSE]

\* cache.get(cache_key): None once the timeout has passed
django_get(store, cache_key, t) ==
    IF store[cache_key] # NoDjangoEntry /\ t < store[cache_key].expires_at
    THEN store[cache_key].data
    ELSE NoValue

\* returns [store, ok]
_set_django_cache(store, cache_key, data, ttl, t, dj_up) ==
    IF dj_up
    THEN [store |-> [store EXCEPT ![cache_key] = [data |-> data, expires_at |-> t + ttl]], ok |-> TRUE]
    ELSE [store |-> store, ok |-> FALSE]

----------------------------------------------------------------------------
(* The file tier.  A write ends "ok", or raises in open ("open_error", the *)
(* directory is as before) or in pickle.dump ("dump_error", the file was   *)
(* opened for writing and holds no complete pickle).                       *)

NoFile == [exists |-> FALSE]
CorruptFile == [exists |-> TRUE, unpickles |-> FALSE]

FileOutcomes == {"ok", "open_error", "dump_error"}

\* returns [dir, ok]
_set_file_cache(dir, cache_key, data, ttl, t, outcome) ==
    CASE outcome = "ok" ->
            [dir |-> [dir EXCEPT ![cache_key] = CacheEntry(data, t, ttl, 0, cache_key)], ok |-> TRUE]
      [] outcome = "open_error" ->
            [dir |-> dir, ok |-> FALSE]
      [] outcome = "dump_error" ->
            [dir |-> [dir EXCEPT ![cache_key] = CorruptFile], ok |-> FALSE]

----------------------------------------------------------------------------
(* The state after PerformanceCache() and the record of a call *)

\* env is <<dj_up, file_outcome>>, what the tiers did during the call; writes is
\* what _set_memory_cache, _set_django_cache and _set_file_cache returned to set;
\* raised tells whether the call ended in an exception instead of returning;
\* prev_op, prev_cache_key, prev_ret and prev_key_data are the call made just before
Call(op, ns, key_data, cache_key, data, ttl, ret, tier, env, writes, evicted) ==
    [op |-> op, ns |-> ns, key_data |-> key_data, cache_key |-> cache_key,
     data |-> data, ttl |-> ttl, ret |-> ret, tier |-> tier,
     dj_up |-> env[1], file_outcome |-> env[2],
     mem_ok |-> writes[1], dj_ok |-> writes[2], file_ok |-> writes[3],
     evicted |-> evicted, at |-> now, raised |-> FALSE,
     prev_op |-> last.op, prev_cache_key |-> last.cache_key, prev_ret |-> last.ret,
     prev_key_data |-> last.key_data]

NoWrites == <<FALSE, FALSE, FALSE>>

NeverSet == [called |-> FALSE]

\* the threads of the process that call into the cache
Threads == {"t1", "t2", "t3"}

\* a thread that is not inside a call
IdleFrame == [pc |-> "idle", op |-> "-"]

NoWritesLogged == [started |-> 0, returned |-> 0, data |-> "-", deleted |-> FALSE]

\* threading.RLock(), owned by nobody
Unlocked == [owner |-> "-", depth |-> 0]

NoStats == [hits |-> 0, misses |-> 0, memory_hits |-> 0,
            django_hits |-> 0, file_hits |-> 0, evictions |-> 0]

Init ==
    /\ memory_cache = <<>>
    /\ current_memory_size = 0
    /\ cache_stats = NoStats
    /\ django = [k \in CacheKeys |-> NoDjangoEntry]
    /\ files = [k \in CacheKeys |-> NoFile]
    /\ now = 0
    /\ last = [op |-> "init", ns |-> <<>>, key_data |-> "-", cache_key |-> <<>>,
               data |-> "-", ttl |-> 0, ret |-> "None", tier |-> "-",
               dj_up |-> TRUE, file_outcome |-> "-",
               mem_ok |-> FALSE, dj_ok |-> FALSE, file_ok |-> FALSE,
               evicted |-> <<>>, at |-> 0, raised |-> FALSE,
               prev_op |-> "-", prev_cache_key |-> <<>>, prev_ret |-> "None",
               prev_key_data |-> "-"]
    /\ set_log = [k \in CacheKeys |-> NeverSet]
    /\ ncalls = 0
    /\ threads = [t \in Threads |-> IdleFrame]
    /\ write_log = [k \in CacheKeys |-> NoWritesLogged]
    /\ lock = Unlocked

MemoryTier == [cache |-> memory_cache, size |-> current_memory_size,
               evictions |-> cache_stats.evictions]

\* a call that ends in the exception raised by _generate_cache_key, before it has
\* read or written anything
raise_TypeError(op, ns, key_data) ==
    /\ last' = [Call(op, ns, key_data, <<>>, "-", 0, "None", "raised",
                     <<TRUE, "-">>, NoWrites, <<>>) EXCEPT !.raised = TRUE]
    /\ ncalls' = ncalls + 1
    /\ UNCHANGED <<memory_cache, current_memory_size, cache_stats, django, files, now, set_log>>

----------------------------------------------------------------------------
(* set *)

\* success = True; success &= ... for each of the three writes
tier_writes_any_succeeded(mem_ok, dj_ok, file_ok) == mem_ok \/ dj_ok \/ file_ok

tier_writes_succeeded(mem_ok, dj_ok, file_ok) == ((TRUE /\ mem_ok) /\ dj_ok) /\ file_ok

set(ns, key_data, data, ttl_arg, dj_up, file_outcome) ==
    IF key_raises(key_data) THEN raise_TypeError("set", ns, key_data)
    ELSE
        LET cache_key == _generate_cache_key(ns, key_data)
            ttl == IF ttl_arg = NoTtl THEN config_ttl(ns) ELSE ttl_arg[1]
            m == _set_memory_cache(MemoryTier, cache_key, data, ns, ttl, now)
            d == _set_django_cache(django, cache_key, data, ttl, now, dj_up)
            f == _set_file_cache(files, cache_key, data, ttl, now, file_outcome)
            success == tier_writes_succeeded(m.ok, d.ok, f.ok)
        IN /\ memory_cache' = m.cache
           /\ current_memory_size' = m.size
           /\ cache_stats' = [cache_stats EXCEPT !.evictions = m.evictions]
           /\ django' = d.store
           /\ files' = f.dir
           /\ last' = Call("set", ns, key_data, cache_key, data, ttl, success, "-",
                           <<dj_up, file_outcome>>, <<m.ok, d.ok, f.ok>>, m.evicted)
           /\ set_log' = [set_log EXCEPT ![cache_key] = [called |-> TRUE, at |-> now, ttl |-> ttl]]
           /\ ncalls' = ncalls + 1
           /\ UNCHANGED now

----------------------------------------------------------------------------
(* get.  get_result is the whole method: the three tiers and the counters  *)
(* after the call, the value returned and the tier that served it.         *)

GetOutcome(m, store, dir, ret, tier) ==
    [cache |-> m.cache, size |-> m.size, evictions |-> m.evictions,
     django |-> store, files |-> dir, ret |-> ret, tier |-> tier, evicted |-> m.evicted]

\* the except branch of level 3 and the removal of an expired file: file_path.unlink(),
\* which either removes the file and the get goes on to the miss, or raises out of get
unlink_or_raise(m0, cache_key, unlink_ok) ==
    IF unlink_ok
    THEN GetOutcome(m0, django, [files EXCEPT ![cache_key] = NoFile], Default, "miss")
    ELSE GetOutcome(m0, django, files, Default, "raised")

\* Level 3 with the promotion into the memory tier left out
get_file_level_no_memory_promotion(m, cache_key, ns, dj_up, unlink_ok) ==
    LET cached_entry == files[cache_key]
        m0 == [cache |-> m.cache, size |-> m.size, evictions |-> m.evictions, evicted |-> <<>>]
    IN CASE cached_entry = NoFile ->
               GetOutcome(m0, django, files, Default, "miss")
         [] cached_entry = CorruptFile ->
               unlink_or_raise(m0, cache_key, unlink_ok)
         [] OTHER ->
               IF ~is_expired(cached_entry, now)
               THEN LET d == _set_django_cache(django, cache_key, cached_entry.data, DefaultTtl, now, dj_up)
                    IN GetOutcome(m0, d.store, files, cached_entry.data, "file")
               ELSE unlink_or_raise(m0, cache_key, unlink_ok)

\* Level 3: the file tier, reached with the memory tier m and after the Django tier missed or raised
get_file_level(m, cache_key, ns, dj_up, unlink_ok) ==
    LET cached_entry == files[cache_key]
        m0 == [cache |-> m.cache, size |-> m.size, evictions |-> m.evictions, evicted |-> <<>>]
    IN CASE cached_entry = NoFile ->
               GetOutcome(m0, django, files, Default, "miss")
         [] cached_entry = CorruptFile ->
               \* pickle.load raises: the handler unlinks the file
               unlink_or_raise(m0, cache_key, unlink_ok)
         [] OTHER ->
               IF ~is_expired(cached_entry, now)
               THEN LET d == _set_django_cache(django, cache_key, cached_entry.data, DefaultTtl, now, dj_up)
                        m1 == _set_memory_cache(m, cache_key, cached_entry.data, ns, DefaultTtl, now)
                    IN GetOutcome(m1, d.store, files, cached_entry.data, "file")
               \* the unlink of line 171; when it raises the handler unlinks again
               ELSE unlink_or_raise(m0, cache_key, unlink_ok)

\* Level 2: the Django tier
get_django_level(m, cache_key, ns, dj_up, unlink_ok) ==
    LET django_data == IF dj_up THEN django_get(django, cache_key, now) ELSE NoValue
    IN IF django_data # NoValue
       THEN LET m1 == _set_memory_cache(m, cache_key, django_data, ns, DefaultTtl, now)
            IN GetOutcome(m1, django, files, django_data, "django")
       ELSE get_file_level(m, cache_key, ns, dj_up, unlink_ok)

get_result(ns, key_data, dj_up, unlink_ok) ==
    LET cache_key == _generate_cache_key(ns, key_data)
        m == MemoryTier
        resident == MemHas(memory_cache, cache_key)
        entry == MemGet(memory_cache, cache_key)
    IN IF resident
       THEN IF ~is_expired(entry, now)
            THEN GetOutcome([cache |-> MemStore(memory_cache, update_access(entry, now)),
                             size |-> m.size, evictions |-> m.evictions, evicted |-> <<>>],
                            django, files, entry.data, "memory")
            ELSE get_django_level([cache |-> MemDel(memory_cache, cache_key),
                                   size |-> m.size - entry.size_bytes,
                                   evictions |-> m.evictions],
                                  cache_key, ns, dj_up, unlink_ok)
       ELSE get_django_level(m, cache_key, ns, dj_up, unlink_ok)

\* the counters with the miss branch counting nothing
count_get_without_misses(stats, tier, evictions) ==
    [hits |-> stats.hits + (IF tier \in {"memory", "django", "file"} THEN 1 ELSE 0),
     misses |-> stats.misses,
     memory_hits |-> stats.memory_hits + (IF tier = "memory" THEN 1 ELSE 0),
     django_hits |-> stats.django_hits + (IF tier = "django" THEN 1 ELSE 0),
     file_hits |-> stats.file_hits + (IF tier = "file" THEN 1 ELSE 0),
     evictions |-> evictions]

\* the counters with a file hit left out of hits
count_get_file_hit_not_in_hits(stats, tier, evictions) ==
    [hits |-> stats.hits + (IF tier \in {"memory", "django"} THEN 1 ELSE 0),
     misses |-> stats.misses + (IF tier = "miss" THEN 1 ELSE 0),
     memory_hits |-> stats.memory_hits + (IF tier = "memory" THEN 1 ELSE 0),
     django_hits |-> stats.django_hits + (IF tier = "django" THEN 1 ELSE 0),
     file_hits |-> stats.file_hits + (IF tier = "file" THEN 1 ELSE 0),
     evictions |-> evictions]

\* self.cache_stats after a get served by tier ("miss" when by none, "raised" when the
\* get was left by an exception before it counted anything), evictions being the count
\* the promotion's evictions have brought it to
count_get(stats, tier, evictions) ==
    [hits |-> stats.hits + (IF tier \in {"memory", "django", "file"} THEN 1 ELSE 0),
     misses |-> stats.misses + (IF tier = "miss" THEN 1 ELSE 0),
     memory_hits |-> stats.memory_hits + (IF tier = "memory" THEN 1 ELSE 0),
     django_hits |-> stats.django_hits + (IF tier = "django" THEN 1 ELSE 0),
     file_hits |-> stats.file_hits + (IF tier = "file" THEN 1 ELSE 0),
     evictions |-> evictions]

get(ns, key_data, dj_up, unlink_ok) ==
    IF key_raises(key_data) THEN raise_TypeError("get", ns, key_data)
    ELSE
        LET r == get_result(ns, key_data, dj_up, unlink_ok)
        IN /\ memory_cache' = r.cache
           /\ current_memory_size' = r.size
           /\ cache_stats' = count_get(cache_stats, r.tier, r.evictions)
           /\ django' = r.django
           /\ files' = r.files
           /\ last' = [Call("get", ns, key_data, _generate_cache_key(ns, key_data), "-", 0,
                            r.ret, r.tier, <<dj_up, "-">>, NoWrites, r.evicted)
                           EXCEPT !.raised = (r.tier = "raised")]
           /\ ncalls' = ncalls + 1
           /\ UNCHANGED <<now, set_log>>

----------------------------------------------------------------------------
(* delete, clear_namespace, cleanup_expired *)

\* success = True, set to False by a failing cache.delete, whatever the file removal does
removals_succeeded_ignoring_unlink(dj_ok, file_exists, unlink_ok) == dj_ok

\* success = True, set to False by a failing cache.delete and by a failing unlink
removals_succeeded(dj_ok, file_exists, unlink_ok) ==
    (TRUE /\ dj_ok) /\ ~(file_exists /\ ~unlink_ok)

\* what became of <cache_key>.pkl in delete
unlink_outcome(file_exists, unlink_ok) ==
    IF ~file_exists THEN "absent" ELSE IF unlink_ok THEN "unlinked" ELSE "unlink_error"

delete(ns, key_data, dj_up, unlink_ok) ==
    IF key_raises(key_data) THEN raise_TypeError("delete", ns, key_data)
    ELSE
        LET cache_key == _generate_cache_key(ns, key_data)
            resident == MemHas(memory_cache, cache_key)
            entry == MemGet(memory_cache, cache_key)
            file_exists == files[cache_key] # NoFile
            success == removals_succeeded(dj_up, file_exists, unlink_ok)
        IN /\ memory_cache' = IF resident THEN MemDel(memory_cache, cache_key) ELSE memory_cache
           /\ current_memory_size' = IF resident THEN current_memory_size - entry.size_bytes
                                     ELSE current_memory_size
           /\ django' = IF dj_up THEN [django EXCEPT ![cache_key] = NoDjangoEntry] ELSE django
           /\ files' = IF file_exists /\ unlink_ok THEN [files EXCEPT ![cache_key] = NoFile] ELSE files
           /\ last' = Call("delete", ns, key_data, cache_key, "-", 0, success, "-",
                           <<dj_up, unlink_outcome(file_exists, unlink_ok)>>, NoWrites, <<>>)
           /\ ncalls' = ncalls + 1
           /\ UNCHANGED <<cache_stats, now, set_log>>

\* k.startswith(f"{namespace}:")
memory_key_in_namespace(cache_key, ns) == startswith(cache_key, ns \o <<":">>)

\* self.cache_dir.glob(f"{namespace}_*.pkl")
file_glob_namespace(name, ns) == glob_match(name, ns \o <<"_">>, PklSuffix)

\* unlink_ok = FALSE: every file_path.unlink() of the call raises, which the loop logs
clear_namespace(ns, unlink_ok) ==
    LET keys_to_delete == { k \in CacheKeys : MemHas(memory_cache, k) /\ memory_key_in_namespace(k, ns) }
        kept == SelectSeq(memory_cache, LAMBDA e : e.cache_key \notin keys_to_delete)
        globbed == { k \in CacheKeys : /\ files[k] # NoFile
                                         /\ file_glob_namespace(file_name(k), ns)
                                         /\ unlink_ok }
    IN /\ memory_cache' = kept
       /\ current_memory_size' = current_memory_size - (SumSizes(memory_cache) - SumSizes(kept))
       /\ files' = [k \in CacheKeys |-> IF k \in globbed THEN NoFile ELSE files[k]]
       /\ last' = Call("clear_namespace", ns, "-", <<>>, "-", 0, "None", "-",
                       <<TRUE, "-">>, NoWrites, <<>>)
       /\ ncalls' = ncalls + 1
       /\ UNCHANGED <<cache_stats, django, now, set_log>>

\* unlink_ok = FALSE: every file_path.unlink() of the call raises, which the loop logs
cleanup_expired(unlink_ok) ==
    LET kept == SelectSeq(memory_cache, LAMBDA e : ~is_expired(e, now))
        \* glob("*.pkl"): a file that does not unpickle raises and is left in place
        expired_files == { k \in CacheKeys : /\ files[k] # NoFile
                                             /\ glob_match(file_name(k), <<>>, PklSuffix)
                                             /\ files[k] # CorruptFile
                                             /\ is_expired(files[k], now)
                                             /\ unlink_ok }
    IN /\ memory_cache' = kept
       /\ current_memory_size' = current_memory_size - (SumSizes(memory_cache) - SumSizes(kept))
       /\ files' = [k \in CacheKeys |-> IF k \in expired_files THEN NoFile ELSE files[k]]
       /\ last' = Call("cleanup_expired", <<>>, "-", <<>>, "-", 0, "None", "-",
                       <<TRUE, IF unlink_ok THEN "-" ELSE "unlink_error">>, NoWrites, <<>>)
       /\ ncalls' = ncalls + 1
       /\ UNCHANGED <<cache_stats, django, now, set_log>>

\* num * 10^digits divided by den, as [q, r] with num * 10^digits = q * den + r and
\* 0 <= r < den, found one decimal digit at a time
RECURSIVE decimal_division(_, _, _)
decimal_division(num, den, digits) ==
    IF digits = 0 THEN [q |-> num \div den, r |-> num % den]
    ELSE LET p == decimal_division(num, den, digits - 1)
         IN [q |-> p.q * 10 + (p.r * 10) \div den, r |-> (p.r * 10) % den]

\* the hundredths of num / den * 100 cut off instead of rounded
round_percent_truncating(num, den) == decimal_division(num, den, 4).q

\* round(num / den * 100, 2) for num >= 0 and den > 0, as the whole number of hundredths:
\* the nearest one, and the even one when two are equally near
round_percent(num, den) ==
    LET d == decimal_division(num, den, 4)
    IN IF 2 * d.r > den \/ (2 * d.r = den /\ d.q % 2 = 1) THEN d.q + 1 ELSE d.q

\* the dict get_stats returns; the two percentages are in hundredths of a percent
stats_dict ==
    LET total_requests == cache_stats.hits + cache_stats.misses
        hit_rate == IF total_requests > 0 THEN round_percent(cache_stats.hits, total_requests) ELSE 0
    IN [hits |-> cache_stats.hits, misses |-> cache_stats.misses,
        memory_hits |-> cache_stats.memory_hits, django_hits |-> cache_stats.django_hits,
        file_hits |-> cache_stats.file_hits, evictions |-> cache_stats.evictions,
        hit_rate_percent |-> hit_rate,
        memory_cache_size |-> current_memory_size,
        memory_cache_entries |-> Len(memory_cache),
        memory_usage_percent |-> round_percent(current_memory_size, max_memory_size)]

get_stats ==
    /\ last' = Call("get_stats", <<>>, "-", <<>>, "-", 0, stats_dict, "-",
                    <<TRUE, "-">>, NoWrites, <<>>)
    /\ ncalls' = ncalls + 1
    /\ UNCHANGED <<memory_cache, current_memory_size, cache_stats, django, files, now, set_log>>

\* _generate_cache_key called on its own
derive_key(ns, key_data) ==
    LET cache_key == _generate_cache_key(ns, key_data)
    IN /\ ~key_raises(key_data)
       /\ last' = Call("_generate_cache_key", ns, key_data, cache_key, "-", 0, cache_key, "-",
                       <<TRUE, "-">>, NoWrites, <<>>)
       /\ ncalls' = ncalls + 1
       /\ UNCHANGED <<memory_cache, current_memory_size, cache_stats, django, files, now, set_log>>

----------------------------------------------------------------------------
(* cached: the wrapper around a function func.  The frame of an invocation  *)
(* holds what get returned, how often func and set were called and what    *)
(* the wrapper returned.                                                   *)

\* "if cached_result:", which takes an empty result for an absent one
is_cached_truthy(cached_result) == cached_result \notin {NoValue, ""}

\* if cached_result is not None
is_cached(cached_result) == cached_result # NoValue

\* no key_func given to cached
NoKeyFunc == <<>>

\* what a frame keeps of the invocation the thread made before
PrevInvocation(frame) ==
    IF frame.op = "cached"
    THEN [func |-> frame.func, args |-> frame.args, key_func |-> frame.key_func,
          ns |-> frame.ns, cache_key |-> frame.cache_key]
    ELSE [func |-> [module |-> "-", name |-> <<>>]]

\* wrapper, up to the return of the cached result.  key_func is NoKeyFunc or <<kd>>, kd
\* being what key_func(*args, **kwargs) returns
cached_lookup(t, func, args, key_func, ns, ttl_arg, dj_up, unlink_ok) ==
    LET cache_key_data == IF key_func # NoKeyFunc THEN key_func[1]
                          ELSE default_key_data(func, args)
    IN /\ threads[t].pc \in {"idle", "done"}
       /\ get(ns, cache_key_data, dj_up, unlink_ok)
       /\ threads' = [threads EXCEPT ![t] =
                         [pc |-> IF last'.raised \/ is_cached(last'.ret) THEN "done" ELSE "call_func",
                          op |-> "cached", func |-> func, args |-> args, key_func |-> key_func,
                          ns |-> ns, key_data |-> cache_key_data, ttl_arg |-> ttl_arg,
                          cache_key |-> last'.cache_key, tier |-> last'.tier,
                          cached_result |-> last'.ret, raised |-> last'.raised,
                          func_calls |-> 0, set_calls |-> 0, result |-> "-",
                          ret |-> IF last'.raised THEN "-" ELSE last'.ret,
                          prev |-> PrevInvocation(threads[t])]]
       /\ UNCHANGED write_log

\* wrapper, from the call of func on: result = func(*args, **kwargs), then
\* performance_cache.set(namespace, cache_key_data, result, ttl) and return result
cached_compute(t, result, dj_up, file_outcome) ==
    /\ threads[t].pc = "call_func"
    /\ threads[t].op = "cached"
    /\ set(threads[t].ns, threads[t].key_data, result, threads[t].ttl_arg, dj_up, file_outcome)
    /\ threads' = [threads EXCEPT ![t].pc = "done",
                                  ![t].func_calls = @ + 1,
                                  ![t].set_calls = @ + 1,
                                  ![t].result = result,
                                  ![t].ret = result]
    /\ UNCHANGED write_log

----------------------------------------------------------------------------
(* get and set run by threads, one step at a time.  A step is what a call  *)
(* does between two points where another thread can run: a section under   *)
(* self._lock, one call of the Django cache, one operation on the file.    *)

\* the file while a set has opened it with 'wb' and has not yet dumped the entry into it:
\* it exists, is truncated, and pickle.load on it raises
PartialFile(t) == [exists |-> TRUE, unpickles |-> FALSE, writer |-> t]

is_partial(file) == \E t \in Threads : file = PartialFile(t)

\* the frame of a get or cleanup_expired: sets_started and sets_returned are the counts of
\* write_log when the call began and expect the value of the latest set that had returned
ReaderFrame(op, pc, ns, key_data, cache_key) ==
    [op |-> op, pc |-> pc, ns |-> ns, key_data |-> key_data, cache_key |-> cache_key,
     data |-> NoValue, ret |-> Default, tier |-> "-", raised |-> FALSE,
     sets_started |-> write_log[cache_key].started,
     sets_returned |-> write_log[cache_key].returned,
     expect |-> write_log[cache_key].data,
     after_delete |-> write_log[cache_key].deleted,
     seen_partial |-> FALSE, unlinked_after_partial |-> FALSE]

\* the frame of a set
WriterFrame(pc, ns, key_data, cache_key, data, ttl, mem_ok) ==
    [op |-> "set", pc |-> pc, ns |-> ns, key_data |-> key_data, cache_key |-> cache_key,
     data |-> data, ttl |-> ttl, mem_ok |-> mem_ok, dj_ok |-> FALSE, ret |-> FALSE]

free(t) == threads[t].pc \in {"idle", "done"}

\* get, Level 1: the section under the lock
get_memory_level(t, ns, key_data) ==
    LET cache_key == _generate_cache_key(ns, key_data)
        resident == MemHas(memory_cache, cache_key)
        entry == MemGet(memory_cache, cache_key)
        frame == ReaderFrame("get", "django", ns, key_data, cache_key)
    IN /\ free(t)
       /\ ~key_raises(key_data)
       /\ ncalls' = ncalls + 1
       /\ IF resident /\ ~is_expired(entry, now)
          THEN /\ memory_cache' = MemStore(memory_cache, update_access(entry, now))
               /\ cache_stats' = count_get(cache_stats, "memory", cache_stats.evictions)
               /\ threads' = [threads EXCEPT ![t] =
                                 [frame EXCEPT !.pc = "done", !.ret = entry.data, !.tier = "memory"]]
               /\ UNCHANGED current_memory_size
          ELSE /\ memory_cache' = IF resident THEN MemDel(memory_cache, cache_key) ELSE memory_cache
               /\ current_memory_size' = IF resident THEN current_memory_size - entry.size_bytes
                                                     ELSE current_memory_size
               /\ threads' = [threads EXCEPT ![t] = frame]
               /\ UNCHANGED cache_stats
       /\ UNCHANGED <<django, files, now, last, set_log, write_log>>

\* get, Level 2: django_data = cache.get(cache_key)
get_django_read(t, dj_up) ==
    LET f == threads[t]
        django_data == IF dj_up THEN django_get(django, f.cache_key, now) ELSE NoValue
    IN /\ f.op = "get"
       /\ f.pc = "django"
       /\ threads' = [threads EXCEPT ![t] =
                         IF django_data # NoValue
                         THEN [f EXCEPT !.pc = "promote_django", !.data = django_data]
                         ELSE [f EXCEPT !.pc = "file"]]
       /\ UNCHANGED <<memory_cache, current_memory_size, cache_stats, django, files, now,
                      last, set_log, ncalls, write_log>>

\* get, Level 2: self._set_memory_cache(cache_key, django_data, namespace), the counters, return
get_django_promote(t) ==
    LET f == threads[t]
        m == _set_memory_cache(MemoryTier, f.cache_key, f.data, f.ns, DefaultTtl, now)
    IN /\ f.op = "get"
       /\ f.pc = "promote_django"
       /\ memory_cache' = m.cache
       /\ current_memory_size' = m.size
       /\ cache_stats' = count_get(cache_stats, "django", m.evictions)
       /\ threads' = [threads EXCEPT ![t] = [f EXCEPT !.pc = "done", !.ret = f.data, !.tier = "django"]]
       /\ UNCHANGED <<django, files, now, last, set_log, ncalls, write_log>>

\* get, Level 3: file_path.exists(), open(file_path, 'rb'), pickle.load(f), is_expired()
get_file_read(t) ==
    LET f == threads[t]
        file == files[f.cache_key]
    IN /\ f.op = "get"
       /\ f.pc = "file"
       /\ threads' = [threads EXCEPT ![t] =
                         CASE file = NoFile      -> [f EXCEPT !.pc = "miss"]
                           [] is_partial(file)   -> [f EXCEPT !.pc = "unlink", !.seen_partial = TRUE]
                           [] file = CorruptFile -> [f EXCEPT !.pc = "unlink"]
                           [] OTHER -> IF ~is_expired(file, now)
                                       THEN [f EXCEPT !.pc = "promote_file", !.data = file.data]
                                       ELSE [f EXCEPT !.pc = "unlink"]]
       /\ UNCHANGED <<memory_cache, current_memory_size, cache_stats, django, files, now,
                      last, set_log, ncalls, write_log>>

\* get, Level 3: the promotion to both higher levels, the counters, return
get_file_promote(t, dj_up) ==
    LET f == threads[t]
        d == _set_django_cache(django, f.cache_key, f.data, DefaultTtl, now, dj_up)
        m == _set_memory_cache(MemoryTier, f.cache_key, f.data, f.ns, DefaultTtl, now)
    IN /\ f.op = "get"
       /\ f.pc = "promote_file"
       /\ django' = d.store
       /\ memory_cache' = m.cache
       /\ current_memory_size' = m.size
       /\ cache_stats' = count_get(cache_stats, "file", m.evictions)
       /\ threads' = [threads EXCEPT ![t] = [f EXCEPT !.pc = "done", !.ret = f.data, !.tier = "file"]]
       /\ UNCHANGED <<files, now, last, set_log, ncalls, write_log>>

\* get, Level 3: file_path.unlink() of the expired file or of the handler; the unlink
\* removes whatever the name refers to by now
get_file_unlink(t, unlink_ok) ==
    LET f == threads[t]
        file == files[f.cache_key]
    IN /\ f.op = "get"
       /\ f.pc = "unlink"
       /\ IF file = NoFile
          THEN /\ threads' = [threads EXCEPT ![t] = [f EXCEPT !.pc = "miss"]]
               /\ UNCHANGED files
          ELSE IF unlink_ok
               THEN /\ files' = [files EXCEPT ![f.cache_key] = NoFile]
                    /\ threads' = [threads EXCEPT ![t] =
                                      [f EXCEPT !.pc = "miss", !.unlinked_after_partial = f.seen_partial]]
               ELSE /\ threads' = [threads EXCEPT ![t] = [f EXCEPT !.pc = "done", !.raised = TRUE,
                                                                  !.tier = "raised"]]
                    /\ UNCHANGED files
       /\ UNCHANGED <<memory_cache, current_memory_size, cache_stats, django, now,
                      last, set_log, ncalls, write_log>>

\* get: the cache miss
get_miss(t) ==
    LET f == threads[t]
    IN /\ f.op = "get"
       /\ f.pc = "miss"
       /\ cache_stats' = count_get(cache_stats, "miss", cache_stats.evictions)
       /\ threads' = [threads EXCEPT ![t] = [f EXCEPT !.pc = "done", !.ret = Default, !.tier = "miss"]]
       /\ UNCHANGED <<memory_cache, current_memory_size, django, files, now,
                      last, set_log, ncalls, write_log>>

\* set, up to and with self._set_memory_cache(cache_key, data, namespace, ttl)
set_memory(t, ns, key_data, data, ttl_arg) ==
    LET cache_key == _generate_cache_key(ns, key_data)
        ttl == IF ttl_arg = NoTtl THEN config_ttl(ns) ELSE ttl_arg[1]
        m == _set_memory_cache(MemoryTier, cache_key, data, ns, ttl, now)
    IN /\ free(t)
       /\ ~key_raises(key_data)
       /\ ncalls' = ncalls + 1
       /\ memory_cache' = m.cache
       /\ current_memory_size' = m.size
       /\ cache_stats' = [cache_stats EXCEPT !.evictions = m.evictions]
       /\ threads' = [threads EXCEPT ![t] =
                         WriterFrame("set_django", ns, key_data, cache_key, data, ttl, m.ok)]
       /\ write_log' = [write_log EXCEPT ![cache_key].started = @ + 1,
                                         ![cache_key].deleted = FALSE]
       /\ UNCHANGED <<django, files, now, last, set_log>>

\* set: self._set_django_cache(cache_key, data, namespace, ttl)
set_django(t, dj_up) ==
    LET f == threads[t]
        d == _set_django_cache(django, f.cache_key, f.data, f.ttl, now, dj_up)
    IN /\ f.op = "set"
       /\ f.pc = "set_django"
       /\ django' = d.store
       /\ threads' = [threads EXCEPT ![t] = [f EXCEPT !.pc = "set_file_open", !.dj_ok = d.ok]]
       /\ UNCHANGED <<memory_cache, current_memory_size, cache_stats, files, now,
                      last, set_log, ncalls, write_log>>

\* set, in _set_file_cache: open(file_path, 'wb') creates or truncates the file
set_file_open(t) ==
    LET f == threads[t]
    IN /\ f.op = "set"
       /\ f.pc = "set_file_open"
       /\ files' = [files EXCEPT ![f.cache_key] = PartialFile(t)]
       /\ threads' = [threads EXCEPT ![t] = [f EXCEPT !.pc = "set_file_dump"]]
       /\ UNCHANGED <<memory_cache, current_memory_size, cache_stats, django, now,
                      last, set_log, ncalls, write_log>>

\* set, in _set_file_cache: pickle.dump(entry, f) and the close; the entry is under the
\* name unless the name was unlinked after the open.  Then set returns.
set_file_dump(t) ==
    LET f == threads[t]
        entry == CacheEntry(f.data, now, f.ttl, 0, f.cache_key)
    IN /\ f.op = "set"
       /\ f.pc = "set_file_dump"
       /\ files' = IF files[f.cache_key] = PartialFile(t)
                   THEN [files EXCEPT ![f.cache_key] = entry]
                   ELSE files
       /\ threads' = [threads EXCEPT ![t] =
                         [f EXCEPT !.pc = "done",
                                   !.ret = tier_writes_succeeded(f.mem_ok, f.dj_ok, TRUE)]]
       /\ write_log' = [write_log EXCEPT ![f.cache_key].returned = @ + 1,
                                         ![f.cache_key].data = f.data]
       /\ UNCHANGED <<memory_cache, current_memory_size, cache_stats, django, now,
                      last, set_log, ncalls>>

\* delete run by a thread in one step.  write_log notes that the key has been deleted:
\* delete returned true and no set for the key was running
delete_by_thread(t, ns, key_data, dj_up, unlink_ok) ==
    LET cache_key == _generate_cache_key(ns, key_data)
    IN /\ free(t)
       /\ delete(ns, key_data, dj_up, unlink_ok)
       /\ threads' = [threads EXCEPT ![t] = [op |-> "delete", pc |-> "done", ret |-> last'.ret]]
       /\ write_log' = [write_log EXCEPT ![cache_key].deleted =
                           ( /\ last'.ret = TRUE
                             /\ write_log[cache_key].started = write_log[cache_key].returned )]

\* cleanup_expired run by a thread while the file of cache_key may be open for writing:
\* pickle.load on the partial file raises, the error is logged and the file is left
cleanup_expired_scan(t, cache_key, unlink_ok) ==
    LET kept == SelectSeq(memory_cache, LAMBDA e : ~is_expired(e, now))
        readable(k) == files[k] # NoFile /\ files[k] # CorruptFile /\ ~is_partial(files[k])
        expired_files == { k \in CacheKeys : /\ glob_match(file_name(k), <<>>, PklSuffix)
                                             /\ readable(k)
                                             /\ is_expired(files[k], now)
                                             /\ unlink_ok }
        frame == ReaderFrame("cleanup_expired", "done", <<>>, "-", cache_key)
    IN /\ free(t)
       /\ ncalls' = ncalls + 1
       /\ memory_cache' = kept
       /\ current_memory_size' = current_memory_size - (SumSizes(memory_cache) - SumSizes(kept))
       /\ files' = [k \in CacheKeys |-> IF k \in expired_files THEN NoFile ELSE files[k]]
       /\ threads' = [threads EXCEPT ![t] =
                         [frame EXCEPT !.seen_partial = is_partial(files[cache_key])]]
       /\ UNCHANGED <<cache_stats, django, now, last, set_log, write_log>>

\* The process starts again and the module builds performance_cache = PerformanceCache()
\* anew: the files stay, and the Django cache stays unless its backend lived in the process.
restart(django_kept) ==
    /\ memory_cache' = <<>>
    /\ current_memory_size' = 0
    /\ cache_stats' = NoStats
    /\ django' = IF django_kept THEN django ELSE [k \in CacheKeys |-> NoDjangoEntry]
    /\ last' = Call("restart", <<>>, "-", <<>>, "-", 0, "None", "-",
                    <<TRUE, "-">>, NoWrites, <<>>)
    /\ write_log' = [k \in CacheKeys |-> NoWritesLogged]
    /\ UNCHANGED <<files, now, set_log, ncalls, threads, lock>>

\* the clock moves on between two calls
Tick(max_time) ==
    /\ now < max_time
    /\ now' = now + 1
    /\ UNCHANGED <<memory_cache, current_memory_size, cache_stats, django, files, last, set_log, ncalls>>
    /\ UNCHANGED thread_vars

----------------------------------------------------------------------------
(* Spec: any sequence of MaxCalls calls, each tier call of which may fail, *)
(* with the clock moving between them.                                     *)

\* the requests of Spec: those of the callers and one whose key data cannot be serialized
AnyRequests == Requests \cup { <<NsGemini, kd>> : kd \in UnserializableKeyData }

CallSet ==
    \E r \in AnyRequests, data \in Values, ttl \in Ttls, dj_up \in BOOLEAN, outcome \in FileOutcomes :
        ncalls < MaxCalls /\ set(r[1], r[2], data, ttl, dj_up, outcome) /\ UNCHANGED thread_vars

CallGet ==
    \E r \in AnyRequests, dj_up \in BOOLEAN, unlink_ok \in BOOLEAN :
        ncalls < MaxCalls /\ get(r[1], r[2], dj_up, unlink_ok) /\ UNCHANGED thread_vars

CallDelete ==
    \E r \in AnyRequests, dj_up \in BOOLEAN, unlink_ok \in BOOLEAN :
        ncalls < MaxCalls /\ delete(r[1], r[2], dj_up, unlink_ok) /\ UNCHANGED thread_vars

CallClearNamespace ==
    \E ns \in Namespaces, unlink_ok \in BOOLEAN :
        ncalls < MaxCalls /\ clear_namespace(ns, unlink_ok) /\ UNCHANGED thread_vars

CallCleanupExpired ==
    \E unlink_ok \in BOOLEAN : ncalls < MaxCalls /\ cleanup_expired(unlink_ok) /\ UNCHANGED thread_vars

CallGetStats ==
    ncalls < MaxCalls /\ get_stats /\ UNCHANGED thread_vars

ProcessRestart == \E django_kept \in BOOLEAN : restart(django_kept)

ClockTick == Tick(MaxTime)

Next ==
    \/ CallSet
    \/ CallGet
    \/ CallDelete
    \/ CallClearNamespace
    \/ CallCleanupExpired
    \/ CallGetStats
    \/ ProcessRestart
    \/ ClockTick

Spec == Init /\ [][Next]_vars

----------------------------------------------------------------------------
(* SpecFaults: every operation with every tier failure, at one instant and *)
(* with the namespace's configured ttl.                                    *)

FaultSet ==
    \E r \in Requests, data \in Values, dj_up \in BOOLEAN, outcome \in FileOutcomes :
        ncalls < MaxFaultCalls /\ set(r[1], r[2], data, NoTtl, dj_up, outcome) /\ UNCHANGED thread_vars

FaultGet ==
    \E r \in Requests, dj_up \in BOOLEAN :
        ncalls < MaxFaultCalls /\ get(r[1], r[2], dj_up, TRUE) /\ UNCHANGED thread_vars

FaultDelete ==
    \E r \in Requests, dj_up \in BOOLEAN, unlink_ok \in BOOLEAN :
        ncalls < MaxFaultCalls /\ delete(r[1], r[2], dj_up, unlink_ok) /\ UNCHANGED thread_vars

FaultClearNamespace ==
    \E ns \in Namespaces : ncalls < MaxFaultCalls /\ clear_namespace(ns, TRUE) /\ UNCHANGED thread_vars

FaultCleanupExpired ==
    ncalls < MaxFaultCalls /\ cleanup_expired(TRUE) /\ UNCHANGED thread_vars

NextFaults ==
    \/ FaultSet
    \/ FaultGet
    \/ FaultDelete
    \/ FaultClearNamespace
    \/ FaultCleanupExpired

SpecFaults == Init /\ [][NextFaults]_vars

----------------------------------------------------------------------------
(* SpecLru: set and get with every tier call succeeding, and the clock.    *)

LruSet ==
    \E r \in Requests, data \in Values :
        ncalls < MaxLruCalls /\ set(r[1], r[2], data, NoTtl, TRUE, "ok") /\ UNCHANGED thread_vars

LruGet ==
    \E r \in Requests : ncalls < MaxLruCalls /\ get(r[1], r[2], TRUE, TRUE) /\ UNCHANGED thread_vars

LruTick == Tick(MaxLruTime)

NextLru ==
    \/ LruSet
    \/ LruGet
    \/ LruTick

SpecLru == Init /\ [][NextLru]_vars

----------------------------------------------------------------------------
(* SpecPromote: set and get with a Django cache that may be unreachable,   *)
(* and restarts of the process.                                            *)

PromoteSet ==
    \E r \in Requests, data \in Values, dj_up \in BOOLEAN :
        ncalls < MaxPromoteCalls /\ set(r[1], r[2], data, NoTtl, dj_up, "ok") /\ UNCHANGED thread_vars

PromoteGet ==
    \E r \in Requests, dj_up \in BOOLEAN :
        ncalls < MaxPromoteCalls /\ get(r[1], r[2], dj_up, TRUE) /\ UNCHANGED thread_vars

PromoteRestart == \E django_kept \in BOOLEAN : restart(django_kept)

NextPromote ==
    \/ PromoteSet
    \/ PromoteGet
    \/ PromoteRestart

SpecPromote == Init /\ [][NextPromote]_vars

----------------------------------------------------------------------------
(* SpecExpiry: a value that fits every namespace, set with a short ttl,    *)
(* and the clock running past it.                                          *)

ExpiryRequests == { <<NsGemini, k1>>, <<NsTemplateData, k1>> }

ExpirySet ==
    \E r \in ExpiryRequests, ttl \in Ttls :
        ncalls < MaxExpiryCalls /\ set(r[1], r[2], "A", ttl, TRUE, "ok") /\ UNCHANGED thread_vars

ExpiryGet ==
    \E r \in ExpiryRequests : ncalls < MaxExpiryCalls /\ get(r[1], r[2], TRUE, TRUE) /\ UNCHANGED thread_vars

ExpiryClearNamespace ==
    \E ns \in Namespaces : ncalls < MaxExpiryCalls /\ clear_namespace(ns, TRUE) /\ UNCHANGED thread_vars

ExpiryCleanupExpired ==
    ncalls < MaxExpiryCalls /\ cleanup_expired(TRUE) /\ UNCHANGED thread_vars

ExpiryTick == Tick(MaxExpiryTime)

NextExpiry ==
    \/ ExpirySet
    \/ ExpiryGet
    \/ ExpiryClearNamespace
    \/ ExpiryCleanupExpired
    \/ ExpiryTick

SpecExpiry == Init /\ [][NextExpiry]_vars

----------------------------------------------------------------------------
(* SpecFill: a run of set calls that fills the memory tier.                *)

FillSet ==
    \E r \in Requests, data \in Values :
        ncalls < MaxFillCalls /\ set(r[1], r[2], data, NoTtl, TRUE, "ok") /\ UNCHANGED thread_vars

FillGet ==
    \E r \in Requests : ncalls < MaxFillCalls /\ get(r[1], r[2], TRUE, TRUE) /\ UNCHANGED thread_vars

NextFill ==
    \/ FillSet
    \/ FillGet

SpecFill == Init /\ [][NextFill]_vars

----------------------------------------------------------------------------
(* SpecDelete: set, get and delete, where the Django cache may be          *)
(* unreachable, a file write may leave a broken file and an unlink may     *)
(* fail.                                                                   *)

DeleteSet ==
    \E r \in Requests, data \in Values, outcome \in {"ok", "dump_error"} :
        ncalls < MaxDeleteCalls /\ set(r[1], r[2], data, NoTtl, TRUE, outcome) /\ UNCHANGED thread_vars

DeleteGet ==
    \E r \in Requests, dj_up \in BOOLEAN :
        ncalls < MaxDeleteCalls /\ get(r[1], r[2], dj_up, TRUE) /\ UNCHANGED thread_vars

DeleteDelete ==
    \E r \in Requests, dj_up \in BOOLEAN, unlink_ok \in BOOLEAN :
        ncalls < MaxDeleteCalls /\ delete(r[1], r[2], dj_up, unlink_ok) /\ UNCHANGED thread_vars

NextDelete ==
    \/ DeleteSet
    \/ DeleteGet
    \/ DeleteDelete

SpecDelete == Init /\ [][NextDelete]_vars

----------------------------------------------------------------------------
(* SpecStats: runs of set and get that move the counters, and get_stats.   *)

StatsSet ==
    \E r \in Requests : ncalls < MaxStatsCalls /\ set(r[1], r[2], "A", NoTtl, TRUE, "ok") /\ UNCHANGED thread_vars

StatsGet ==
    \E r \in Requests : ncalls < MaxStatsCalls /\ get(r[1], r[2], TRUE, TRUE) /\ UNCHANGED thread_vars

StatsGetStats ==
    ncalls < MaxStatsCalls /\ get_stats /\ UNCHANGED thread_vars

NextStats ==
    \/ StatsSet
    \/ StatsGet
    \/ StatsGetStats

SpecStats == Init /\ [][NextStats]_vars

----------------------------------------------------------------------------
(* SpecHit: one key data in two namespaces, set with either ttl, get with  *)
(* the Django cache reachable or not, and the clock running up to and past *)
(* the short ttl.                                                          *)

HitSet ==
    \E r \in ExpiryRequests, data \in Values, ttl \in Ttls :
        ncalls < MaxHitCalls /\ set(r[1], r[2], data, ttl, TRUE, "ok") /\ UNCHANGED thread_vars

HitGet ==
    \E r \in ExpiryRequests, dj_up \in BOOLEAN :
        ncalls < MaxHitCalls /\ get(r[1], r[2], dj_up, TRUE) /\ UNCHANGED thread_vars

HitTick == Tick(MaxHitTime)

NextHit ==
    \/ HitSet
    \/ HitGet
    \/ HitTick

SpecHit == Init /\ [][NextHit]_vars

----------------------------------------------------------------------------
(* SpecKey: _generate_cache_key applied to str, dict and list key data in  *)
(* every namespace.                                                        *)

KeyDerive ==
    \E ns \in Namespaces, key_data \in KeyData \cup MappingKeyData \cup ListKeyData :
        ncalls < MaxKeyCalls /\ derive_key(ns, key_data) /\ UNCHANGED thread_vars

NextKey == KeyDerive

SpecKey == Init /\ [][NextKey]_vars

----------------------------------------------------------------------------
(* SpecCached: functions wrapped by cached with the namespace             *)
(* gemini_responses, invoked one after the other; a function may return    *)
(* None or an empty result, the key_func may give key data that cannot be  *)
(* serialized.                                                             *)

\* what the wrapped function returns: a value, None or the empty str
FuncResults == {"A", NoValue, ""}

\* the key_func of the decorator: none, one that returns 'k1', one whose result cannot
\* be serialized
KeyFuncs == {NoKeyFunc, <<k1>>} \cup { <<kd>> : kd \in UnserializableKeyData }

NextCached ==
    \/ \E func \in WrappedFunctions, args \in ArgTuples, key_func \in KeyFuncs :
          /\ ncalls < MaxCachedCalls
          /\ cached_lookup("t1", func, args, key_func, NsGemini, NoTtl, TRUE, TRUE)
          /\ UNCHANGED lock
    \/ \E result \in FuncResults : cached_compute("t1", result, TRUE, "ok") /\ UNCHANGED lock

SpecCached == Init /\ [][NextCached]_vars

----------------------------------------------------------------------------------------------------------------------------------------
(* SpecThreads: the threads of one process call set, get and               *)
(* cleanup_expired for the key k1 of gemini_responses, their steps         *)
(* interleaved in every order.  The payloads (10 MB and 50 MB) are within  *)
(* the namespace's max_size.  One set runs at a time; gets and             *)
(* cleanup_expired overlap it and each other, and a delete runs between    *)
(* the steps of the other calls.                                           *)

NextThreads ==
    \/ \E t \in Threads, data \in Values :
          /\ ncalls < MaxThreadCalls
          /\ \A u \in Threads : threads[u].op = "set" => threads[u].pc = "done"
          /\ set_memory(t, NsGemini, k1, data, NoTtl) /\ UNCHANGED lock
    \/ \E t \in Threads, dj_up \in BOOLEAN : set_django(t, dj_up) /\ UNCHANGED lock
    \/ \E t \in Threads : set_file_open(t) /\ UNCHANGED lock
    \/ \E t \in Threads : set_file_dump(t) /\ UNCHANGED lock
    \/ \E t \in Threads : ncalls < MaxThreadCalls /\ get_memory_level(t, NsGemini, k1) /\ UNCHANGED lock
    \/ \E t \in Threads, dj_up \in BOOLEAN : get_django_read(t, dj_up) /\ UNCHANGED lock
    \/ \E t \in Threads : get_django_promote(t) /\ UNCHANGED lock
    \/ \E t \in Threads : get_file_read(t) /\ UNCHANGED lock
    \/ \E t \in Threads, dj_up \in BOOLEAN : get_file_promote(t, dj_up) /\ UNCHANGED lock
    \/ \E t \in Threads, unlink_ok \in BOOLEAN : get_file_unlink(t, unlink_ok) /\ UNCHANGED lock
    \/ \E t \in Threads : get_miss(t) /\ UNCHANGED lock
    \/ \E t \in Threads :
          ncalls < MaxThreadCalls /\ cleanup_expired_scan(t, _generate_cache_key(NsGemini, k1), TRUE) /\ UNCHANGED lock
    \/ \E t \in Threads :
          ncalls < MaxThreadCalls /\ delete_by_thread(t, NsGemini, k1, TRUE, TRUE) /\ UNCHANGED lock

SpecThreads == Init /\ [][NextThreads]_vars

----------------------------------------------------------------------------
(* SpecCleanup: values set with a ttl of one second or the namespace's,    *)
(* some of their files broken by a failing pickle.dump, the clock running  *)
(* past the short ttl, and cleanup_expired whose unlink may fail.          *)

NextCleanup ==
    \/ \E r \in ExpiryRequests, ttl \in Ttls, outcome \in {"ok", "dump_error"} :
          ncalls < MaxCleanupCalls /\ set(r[1], r[2], "A", ttl, TRUE, outcome) /\ UNCHANGED thread_vars
    \/ \E unlink_ok \in BOOLEAN :
          ncalls < MaxCleanupCalls /\ cleanup_expired(unlink_ok) /\ UNCHANGED thread_vars
    \/ Tick(MaxCleanupTime)

SpecCleanup == Init /\ [][NextCleanup]_vars

----------------------------------------------------------------------------
(* Properties *)

\* the cache key of a request <<namespace, key_data>>
KeyOf(r) == _generate_cache_key(r[1], r[2])

\* _calculate_size(data) > max_size for the namespace
Oversize(ns, data) == _calculate_size(data) > config_max_size(ns)

\* C1: in every reachable state current_memory_size equals the sum of size_bytes
\* over the entries resident in memory_cache, also after set overwrites a resident key.
C1_SizeEqualsSumOfEntries == current_memory_size = SumSizes(memory_cache)

\* C2: a get issued immediately after set(namespace, key_data, value, ttl) with ttl > 0,
\* with no intervening operation, returns value, whatever the prior cache state.
C2_GetAfterSetReturnsValue ==
    [][ ( /\ last.op = "set"
          /\ last.ttl > 0
          /\ last'.op = "get"
          /\ ncalls' = ncalls + 1
          /\ last'.cache_key = last.cache_key
          /\ last'.at = last.at )
        => last'.ret = last.data ]_vars

\* C3: once more than ttl seconds have passed since the latest set of a key, every get
\* for that key returns default, whatever happened in between.
C3_GetAfterTtlReturnsDefault ==
    ( /\ last.op = "get"
      /\ set_log[last.cache_key].called
      /\ last.at > set_log[last.cache_key].at + set_log[last.cache_key].ttl )
    => last.ret = Default

\* C4: set attempts the memory, Django and file writes on every call, whatever the
\* earlier writes did, and returns true exactly when all three succeeded; an oversize
\* value fails the memory write, is still written to Django and file, and set returns false.
C4_SetWritesEveryTier ==
    last.op = "set" =>
        LET ck == last.cache_key
            mem_written == /\ MemHas(memory_cache, ck)
                           /\ MemGet(memory_cache, ck) =
                                  CacheEntry(last.data, last.at, last.ttl, _calculate_size(last.data), ck)
            dj_written == django[ck] = [data |-> last.data, expires_at |-> last.at + last.ttl]
            file_written == files[ck] = CacheEntry(last.data, last.at, last.ttl, 0, ck)
        IN /\ ~Oversize(last.ns, last.data) => mem_written
           /\ last.dj_up => dj_written
           /\ last.file_outcome = "ok" => file_written
           /\ last.ret = TRUE <=> ( /\ ~Oversize(last.ns, last.data)
                                    /\ last.dj_up
                                    /\ last.file_outcome = "ok" )
           /\ Oversize(last.ns, last.data) => last.ret = FALSE

\* an oversize value was refused by the memory tier, written to Django and file, and set returned false
C4_Witness ==
    /\ last.op = "set"
    /\ Oversize(last.ns, last.data)
    /\ ~MemHas(memory_cache, last.cache_key)
    /\ django[last.cache_key] = [data |-> last.data, expires_at |-> last.at + last.ttl]
    /\ files[last.cache_key] = CacheEntry(last.data, last.at, last.ttl, 0, last.cache_key)
    /\ last.ret = FALSE

\* C5: when the measured size of the value exceeds the namespace's max_size, the memory
\* put returns false and leaves memory_cache, current_memory_size and evictions as they were.
C5_OversizeLeavesMemoryTier ==
    [][ ( /\ last'.op = "set"
          /\ ncalls' = ncalls + 1
          /\ Oversize(last'.ns, last'.data) )
        => /\ last'.mem_ok = FALSE
           /\ memory_cache' = memory_cache
           /\ current_memory_size' = current_memory_size
           /\ cache_stats'.evictions = cache_stats.evictions ]_vars

\* an oversize value that fits the global budget was refused while entries were resident
C5_Witness ==
    /\ last.op = "set"
    /\ Oversize(last.ns, last.data)
    /\ last.mem_ok = FALSE
    /\ memory_cache # <<>>
    /\ current_memory_size + _calculate_size(last.data) <= max_memory_size

\* C6: in every reachable state current_memory_size is at most max_memory_size.
C6_WithinGlobalBudget == current_memory_size <= max_memory_size

\* the accessed_at and size_bytes of the entry resident under cache key k
AccessedAt(cache, k) == MemGet(cache, k).accessed_at
SizeOf(cache, k) == MemGet(cache, k).size_bytes

\* the keys resident in the memory tier
Resident(cache) == { cache[i].cache_key : i \in 1..Len(cache) }

\* the bytes freed by the first n evictions of ev
RECURSIVE Freed(_, _, _)
Freed(cache, ev, n) == IF n = 0 THEN 0 ELSE SizeOf(cache, ev[n]) + Freed(cache, ev, n - 1)

\* C7: when inserting an entry of size S would take current_memory_size above
\* max_memory_size, entries are removed in ascending accessed_at order, the removal stops
\* as soon as the freed bytes reach S (or the tier is empty), no entry is removed while a
\* less recently accessed entry stays resident, and evictions grows by the number removed.
C7_EvictsLeastRecentlyUsed ==
    [][ ( /\ last'.op = "set"
          /\ ncalls' = ncalls + 1
          /\ ~Oversize(last'.ns, last'.data)
          /\ current_memory_size + _calculate_size(last'.data) > max_memory_size )
        => LET S == _calculate_size(last'.data)
               ev == last'.evicted
               n == Len(ev)
               removed == { ev[i] : i \in 1..n }
           IN /\ removed \subseteq Resident(memory_cache)
              /\ Cardinality(removed) = n
              /\ \A i \in 1..n, j \in 1..n :
                    i < j => AccessedAt(memory_cache, ev[i]) <= AccessedAt(memory_cache, ev[j])
              /\ \A k \in Resident(memory_cache) \ removed : \A e \in removed :
                    AccessedAt(memory_cache, k) >= AccessedAt(memory_cache, e)
              /\ n > 0 => Freed(memory_cache, ev, n - 1) < S
              /\ Freed(memory_cache, ev, n) >= S \/ removed = Resident(memory_cache)
              /\ cache_stats'.evictions = cache_stats.evictions + n
              /\ Resident(memory_cache') = (Resident(memory_cache) \ removed) \cup {last'.cache_key} ]_vars

\* a set evicted an entry and stopped while another entry stayed resident
C7_Witness ==
    /\ last.op = "set"
    /\ Len(last.evicted) >= 1
    /\ cache_stats.evictions >= 1
    /\ \E k \in Resident(memory_cache) : k # last.cache_key

\* C8: whenever a get is served from the file tier, the immediately following get for the
\* same key increments memory_hits and no other per-tier hit counter.
C8_FileHitThenMemoryHit ==
    [][ ( /\ last.op = "get"
          /\ last.tier = "file"
          /\ last'.op = "get"
          /\ ncalls' = ncalls + 1
          /\ last'.cache_key = last.cache_key )
        => /\ cache_stats'.memory_hits = cache_stats.memory_hits + 1
           /\ cache_stats'.django_hits = cache_stats.django_hits
           /\ cache_stats'.file_hits = cache_stats.file_hits ]_vars

\* C8 as amended: whenever a get is served from the file tier with a value whose measured
\* size does not exceed the namespace's max_size, the immediately following get for the
\* same key increments memory_hits and no other per-tier hit counter.
C8_FileHitWithinCapThenMemoryHit ==
    [][ ( /\ last.op = "get"
          /\ last.tier = "file"
          /\ ~Oversize(last.ns, last.ret)
          /\ last'.op = "get"
          /\ ncalls' = ncalls + 1
          /\ last'.cache_key = last.cache_key )
        => /\ last'.tier = "memory"
           /\ last'.ret = last.ret
           /\ cache_stats'.memory_hits = cache_stats.memory_hits + 1
           /\ cache_stats'.django_hits = cache_stats.django_hits
           /\ cache_stats'.file_hits = cache_stats.file_hits ]_vars

\* a file hit was followed by a memory hit on the entry it promoted: since the process
\* started the only gets are one file hit and then one memory hit, and the entry that
\* served the memory hit carries the ttl of a promotion, not the one set gives it
C8_Witness ==
    /\ last.op = "get"
    /\ last.tier = "memory"
    /\ cache_stats.file_hits = 1
    /\ cache_stats.memory_hits = 1
    /\ cache_stats.django_hits = 0
    /\ cache_stats.misses = 0
    /\ config_ttl(last.ns) # DefaultTtl
    /\ MemGet(memory_cache, last.cache_key).ttl = DefaultTtl
    /\ MemGet(memory_cache, last.cache_key).access_count = 1

\* C9: for distinct namespaces A and B, clear_namespace(A) removes no memory entry and no
\* file whose cache key was derived under namespace B.
C9_ClearNamespaceIsolated ==
    [][ ( /\ last'.op = "clear_namespace"
          /\ ncalls' = ncalls + 1 )
        => \A r \in Requests :
              r[1] # last'.ns =>
                 /\ MemHas(memory_cache, KeyOf(r)) => MemHas(memory_cache', KeyOf(r))
                 /\ files'[KeyOf(r)] = files[KeyOf(r)] ]_vars

\* C10: after clear_namespace(N) the memory tier holds no entry and the file tier no file
\* whose cache key was derived under namespace N.
C10_ClearNamespaceComplete ==
    last.op = "clear_namespace" =>
        \A r \in Requests :
            r[1] = last.ns =>
               /\ ~MemHas(memory_cache, KeyOf(r))
               /\ files[KeyOf(r)] = NoFile

\* two delete calls in a row for the same key
DeleteTwice ==
    /\ last.op = "delete"
    /\ last'.op = "delete"
    /\ ncalls' = ncalls + 1
    /\ last'.cache_key = last.cache_key

\* the second of two delete calls leaves the memory tier, current_memory_size, the
\* file tier and the counters as the first left them
SecondDeleteChangesNothing ==
    /\ memory_cache' = memory_cache
    /\ current_memory_size' = current_memory_size
    /\ files' = files
    /\ cache_stats' = cache_stats

\* C11: calling delete(namespace, key_data) twice in a row never raises, the second call
\* returns true when the Django tier is reachable, and the second call leaves the memory
\* tier, current_memory_size, the file tier and the counters as the first call left them.
C11_DeleteIdempotent ==
    [][ DeleteTwice
        => /\ ~last'.raised
           /\ last'.dj_up => last'.ret = TRUE
           /\ SecondDeleteChangesNothing ]_vars

\* delete twice with key data that serializes: neither call raises, and when the first
\* call left no file behind (it unlinked the file or found none), the second call returns
\* true when the Django tier is reachable and leaves the memory tier, current_memory_size,
\* the file tier and the counters as the first call left them.
C11_DeleteIdempotentOnceFileGone ==
    [][ DeleteTwice
        => /\ ~last.raised
           /\ ~last'.raised
           /\ files[last.cache_key] = NoFile
                 => /\ last'.ret = last'.dj_up
                    /\ SecondDeleteChangesNothing ]_vars

\* a key that was set has been deleted twice: the first delete took its file and the
\* bytes of its memory entry, the second found nothing and returned true
C11_Witness ==
    /\ last.op = "delete"
    /\ last.prev_op = "delete"
    /\ last.prev_cache_key = last.cache_key
    /\ set_log[last.cache_key].called
    /\ last.file_outcome = "absent"
    /\ last.ret = TRUE
    /\ current_memory_size = 0
    /\ cache_stats = NoStats

\* C12: delete removes the key from the memory, Django and file tiers; it returns true
\* exactly when no attempted tier removal failed (a key already absent counts as success);
\* and after a delete that returned true the next get for that key returns default and
\* increments misses.
C12_DeleteRemovesFromEveryTier ==
    [][ /\ ( last'.op = "delete" /\ ncalls' = ncalls + 1 )
            => LET ck == last'.cache_key
               IN /\ ~last'.raised
                  /\ ~MemHas(memory_cache', ck)
                  /\ last'.dj_up => django'[ck] = NoDjangoEntry
                  /\ last'.file_outcome # "unlink_error" => files'[ck] = NoFile
                  /\ last'.ret = TRUE <=> ( last'.dj_up /\ last'.file_outcome # "unlink_error" )
        /\ ( /\ last.op = "delete"
              /\ last.ret = TRUE
              /\ last'.op = "get"
              /\ ncalls' = ncalls + 1
              /\ last'.cache_key = last.cache_key )
            => /\ ~last'.raised
               /\ last'.ret = Default
               /\ cache_stats' = [cache_stats EXCEPT !.misses = @ + 1] ]_vars

\* a key that was set and resident in all three tiers was deleted, delete returned true,
\* and the get that followed missed
C12_Witness ==
    /\ last.op = "get"
    /\ last.prev_op = "delete"
    /\ last.prev_cache_key = last.cache_key
    /\ last.prev_ret = TRUE
    /\ set_log[last.cache_key].called
    /\ last.ret = Default
    /\ cache_stats.misses = 1
    /\ cache_stats.hits = 0
    /\ current_memory_size = 0

\* C13: get_stats reports hit_rate_percent equal to hits / (hits + misses) * 100 for the
\* hits and misses of the same result, and 0 when hits + misses = 0; it reports
\* memory_cache_size equal to current_memory_size and memory_cache_entries equal to the
\* number of resident memory entries.
C13_StatsIdentity ==
    last.op = "get_stats" =>
        LET st == last.ret
            total == st.hits + st.misses
        IN /\ total > 0 => st.hit_rate_percent * total = st.hits * 10000
           /\ total = 0 => st.hit_rate_percent = 0
           /\ st.memory_cache_size = current_memory_size
           /\ st.memory_cache_entries = Cardinality(Resident(memory_cache))

\* C13 as amended: hit_rate_percent is hits / (hits + misses) * 100 rounded to two decimal
\* places, that is the multiple of 0.01 nearest to it, and 0 when hits + misses = 0; the
\* sizes are as in the claim.
C13_StatsIdentityRounded ==
    last.op = "get_stats" =>
        LET st == last.ret
            total == st.hits + st.misses
            off == st.hit_rate_percent * total - st.hits * 10000
        IN /\ total > 0 => ( 2 * off <= total /\ 2 * (0 - off) <= total )
           /\ total = 0 => st.hit_rate_percent = 0
           /\ st.hits = cache_stats.hits
           /\ st.misses = cache_stats.misses
           /\ st.memory_cache_size = current_memory_size
           /\ st.memory_cache_entries = Cardinality(Resident(memory_cache))

\* get_stats reported two hits out of three requests as 66.67 percent, rounded up
C13_Witness ==
    /\ last.op = "get_stats"
    /\ last.ret.hits = 2
    /\ last.ret.misses = 1
    /\ last.ret.hit_rate_percent = 6667
    /\ last.ret.memory_cache_entries >= 1

\* C14: a get that finds a fresh entry in the memory tier returns that entry's data,
\* increments hits and memory_hits by exactly 1 each and leaves misses, django_hits,
\* file_hits, evictions, current_memory_size and the Django and file tiers unchanged; in
\* particular set(ns, k, v, ttl) with v within the namespace size cap followed by get(ns, k),
\* the entry still fresh, returns v as a memory hit.
C14_MemoryHit ==
    [][ /\ ( /\ last'.op = "get"
              /\ ncalls' = ncalls + 1
              /\ MemHas(memory_cache, last'.cache_key)
              /\ ~(now > MemGet(memory_cache, last'.cache_key).created_at
                            + MemGet(memory_cache, last'.cache_key).ttl) )
            => /\ ~last'.raised
               /\ last'.ret = MemGet(memory_cache, last'.cache_key).data
               /\ cache_stats' = [cache_stats EXCEPT !.hits = @ + 1, !.memory_hits = @ + 1]
               /\ current_memory_size' = current_memory_size
               /\ django' = django
               /\ files' = files
        /\ ( /\ last.op = "set"
              /\ ~Oversize(last.ns, last.data)
              /\ last'.op = "get"
              /\ ncalls' = ncalls + 1
              /\ last'.cache_key = last.cache_key
              /\ now <= last.at + last.ttl )
            => /\ last'.ret = last.data
               /\ cache_stats'.hits = cache_stats.hits + 1
               /\ cache_stats'.memory_hits = cache_stats.memory_hits + 1 ]_vars

\* a value set with a ttl of one second was read one second later, at the last instant
\* it is fresh, and came back as the first and only hit, from the memory tier
C14_Witness ==
    /\ last.op = "get"
    /\ last.prev_op = "set"
    /\ last.prev_cache_key = last.cache_key
    /\ last.tier = "memory"
    /\ set_log[last.cache_key].ttl = 1
    /\ last.at = set_log[last.cache_key].at + 1
    /\ last.ret \in Values
    /\ cache_stats = [NoStats EXCEPT !.hits = 1, !.memory_hits = 1]

\* the key is in none of the three tiers: no memory entry, nothing the Django cache
\* would return, no file
AbsentEverywhere(ck) ==
    /\ ~MemHas(memory_cache, ck)
    /\ django_get(django, ck, now) = NoValue
    /\ files[ck] = NoFile

\* no set has been called: the cache is as it was built
NeverWritten == \A k \in CacheKeys : ~set_log[k].called

\* C15: a get for a key that is absent from all three tiers returns default, increments
\* misses by exactly 1 and leaves hits and every per-tier hit counter unchanged; after n
\* such gets in a row on a fresh cache misses = n, hits = 0 and hit_rate_percent = 0.
C15_MissOnAbsentKey ==
    [][ ( /\ last'.op = "get"
          /\ ncalls' = ncalls + 1
          /\ AbsentEverywhere(last'.cache_key) )
        => /\ ~last'.raised
           /\ last'.ret = Default
           /\ cache_stats' = [cache_stats EXCEPT !.misses = @ + 1]
           /\ ( NeverWritten /\ cache_stats.misses = ncalls )
                 => /\ cache_stats'.misses = ncalls'
                    /\ cache_stats'.hits = 0
                    /\ stats_dict'.hit_rate_percent = 0 ]_vars

\* two gets in a row for a key that was never set: two misses, no hit
C15_Witness ==
    /\ last.op = "get"
    /\ last.prev_op = "get"
    /\ last.prev_cache_key = last.cache_key
    /\ NeverWritten
    /\ last.ret = Default
    /\ cache_stats = [NoStats EXCEPT !.misses = 2]
    /\ stats_dict.hit_rate_percent = 0

\* v1 and v2 hold the same key/value pairs, whatever the order of the items of their
\* dicts at any depth
RECURSIVE same_pairs(_, _)
same_pairs(v1, v2) ==
    IF v1.type # v2.type THEN FALSE
    ELSE CASE v1.type = "dict" ->
                 /\ Len(v1.items) = Len(v2.items)
                 /\ \A i \in 1..Len(v1.items) : \E j \in 1..Len(v2.items) :
                        /\ v1.items[i][1] = v2.items[j][1]
                        /\ same_pairs(v1.items[i][2], v2.items[j][2])
           [] v1.type = "list" ->
                 /\ Len(v1.elems) = Len(v2.elems)
                 /\ \A i \in 1..Len(v1.elems) : same_pairs(v1.elems[i], v2.elems[i])
           [] OTHER -> v1 = v2

HexDigits == {"0","1","2","3","4","5","6","7","8","9","a","b","c","d","e","f"}

\* '<namespace>:<16 hex characters>'
WellFormedKey(ck, ns) ==
    /\ Len(ck) = Len(ns) + 1 + 16
    /\ SubSeq(ck, 1, Len(ns)) = ns
    /\ ck[Len(ns) + 1] = ":"
    /\ \A i \in (Len(ns) + 2)..Len(ck) : ck[i] \in HexDigits

\* C20: for every namespace and every two mappings with the same key/value pairs listed in
\* different orders, at any nesting depth, _generate_cache_key returns the same cache key;
\* calls with equal (namespace, key_data) return equal keys, of the form
\* '<namespace>:<16 hex characters>'.
C20_KeyIgnoresMappingOrder ==
    [][ ( last'.op = "_generate_cache_key" /\ ncalls' = ncalls + 1 )
        => /\ WellFormedKey(last'.ret, last'.ns)
           /\ ( /\ last.op = "_generate_cache_key"
                 /\ last.ns = last'.ns
                 /\ same_pairs(last.key_data, last'.key_data) )
               => last'.ret = last.ret ]_vars

\* two dicts with the same pairs inserted in different orders, the second not in key
\* order, were given the same cache key
C20_Witness ==
    /\ last.op = "_generate_cache_key"
    /\ last.prev_op = "_generate_cache_key"
    /\ last.key_data.type = "dict"
    /\ last.key_data.items # sorted_by_key(last.key_data.items)
    /\ last.prev_key_data # last.key_data
    /\ same_pairs(last.prev_key_data, last.key_data)
    /\ last.prev_cache_key = last.cache_key

\* C16: no call of get, set, delete, clear_namespace or cleanup_expired raises to its
\* caller: a failure of key canonicalization, sizing, the Django tier or the file tier
\* (a failing unlink of a corrupt or expired file and key data that cannot be serialized
\* included) ends in a miss for reads and in a false or logged result for writes.
C16_NeverRaises ==
    last.op \in {"get", "set", "delete", "clear_namespace", "cleanup_expired"} => ~last.raised

\* C19: an invocation of a function wrapped by cached first calls get with the derived key
\* data; if a value is present it returns that value without calling the wrapped function,
\* and if absent it calls the wrapped function exactly once, stores the result with
\* set(namespace, key_data, result, ttl) and returns the result.
C19_CachedWrapper ==
    \A t \in Threads :
        ( threads[t].op = "cached" /\ threads[t].pc = "done" )
        => LET f == threads[t]
           IN \/ /\ ~f.raised
                 /\ f.cached_result # NoValue
                 /\ f.ret = f.cached_result
                 /\ f.func_calls = 0
                 /\ f.set_calls = 0
              \/ /\ ~f.raised
                 /\ f.cached_result = NoValue
                 /\ f.func_calls = 1
                 /\ f.set_calls = 1
                 /\ f.ret = f.result
                 /\ last.op = "set"
                 /\ last.ns = f.ns
                 /\ last.key_data = f.key_data
                 /\ last.data = f.result
                 /\ last.ttl = config_ttl(f.ns)

\* C17: within one process, once a set(ns, k, v) has returned, a get(ns, k) started
\* afterwards by any thread observes v through the memory tier, whatever other threads'
\* concurrent gets for the key are doing (no set is running when the get starts and none
\* starts before it returns).
C17_ReadYourWriteInMemory ==
    \A t \in Threads :
        LET f == threads[t]
        IN ( /\ f.op = "get"
             /\ f.pc = "done"
             /\ f.sets_returned >= 1
             /\ f.sets_started = f.sets_returned
             /\ write_log[f.cache_key].started = f.sets_started )
           => ( f.ret = f.expect /\ f.tier = "memory" )

\* C18: a reader (get or cleanup_expired) running concurrently with a write of the key's
\* file never observes the partially written file and never unlinks, as corrupt, the file
\* that a concurrent set is writing.
C18_NoPartialFileObserved ==
    \A t \in Threads :
        threads[t].op \in {"get", "cleanup_expired"}
        => ( ~threads[t].seen_partial /\ ~threads[t].unlinked_after_partial )

\* a step that is one call of cleanup_expired
CleanupReturns == last'.op = "cleanup_expired" /\ ncalls' = ncalls + 1

\* a file that pickle.load can read
Readable(file) == file # NoFile /\ file # CorruptFile

\* what cleanup_expired does to the memory tier and to the Django cache, and what it
\* leaves alone: no expired memory entry remains, current_memory_size has gone down by
\* the size_bytes of the entries removed, the entries and files that were not expired
\* are as before, and the Django cache is as before
CleanupMemoryAndRest ==
    LET removed == SelectSeq(memory_cache, LAMBDA e : ~MemHas(memory_cache', e.cache_key))
    IN /\ \A i \in 1..Len(memory_cache') : ~is_expired(memory_cache'[i], now')
       /\ current_memory_size' = current_memory_size - SumSizes(removed)
       /\ \A i \in 1..Len(memory_cache) :
             ~is_expired(memory_cache[i], now)
             => /\ MemHas(memory_cache', memory_cache[i].cache_key)
                /\ MemGet(memory_cache', memory_cache[i].cache_key) = memory_cache[i]
       /\ \A k \in CacheKeys :
             ( ~Readable(files[k]) \/ ~is_expired(files[k], now) ) => files'[k] = files[k]
       /\ django' = django

NoExpiredFileRemains == \A k \in CacheKeys : Readable(files'[k]) => ~is_expired(files'[k], now')

GetStep == last'.op = "get" /\ ncalls' = ncalls + 1 /\ last'.cache_key \in CacheKeys

\* the file of the key is expired or does not unpickle
BadFile(file) == file = CorruptFile \/ ( Readable(file) /\ is_expired(file, now) )

\* C24: when get reaches the file tier and the key's file is expired or cannot be
\* unpickled, the file is deleted, get returns default and counts a miss and no hit, and
\* nothing is promoted into the Django cache or the memory tier.
C24_BadFileIsDeletedAndMissed ==
    [][ ( /\ GetStep
          /\ last'.tier \notin {"memory", "django"}
          /\ BadFile(files[last'.cache_key]) )
        => /\ ~last'.raised
           /\ files'[last'.cache_key] = NoFile
           /\ last'.ret = Default
           /\ cache_stats'.misses = cache_stats.misses + 1
           /\ cache_stats'.hits = cache_stats.hits
           /\ django' = django
           /\ ~MemHas(memory_cache', last'.cache_key) ]_vars

\* C25: a failure of the Django cache is never raised.  When cache.get fails, get goes on
\* to the file tier and returns its fresh value or default; when cache.set fails, set
\* still writes the file and returns false; when cache.delete fails, delete still removes
\* the memory entry and the file (unless its unlink fails too) and returns false.
C25_DjangoFailureIsAMiss ==
    [][ ( /\ ncalls' = ncalls + 1
          /\ last'.cache_key \in CacheKeys
          /\ ~last'.dj_up )
        => LET ck == last'.cache_key
               file == files[ck]
           IN /\ ~last'.raised
              /\ last'.op = "get"
                    => \/ last'.tier = "memory"
                       \/ /\ Readable(file)
                          /\ ~is_expired(file, now)
                          /\ last'.ret = file.data
                          /\ last'.tier = "file"
                       \/ /\ ~( Readable(file) /\ ~is_expired(file, now) )
                          /\ last'.ret = Default
                          /\ last'.tier = "miss"
              /\ last'.op = "set"
                    => /\ last'.ret = FALSE
                       /\ last'.file_outcome = "ok"
                             => ( Readable(files'[ck]) /\ files'[ck].data = last'.data )
              /\ last'.op = "delete"
                    => /\ last'.ret = FALSE
                       /\ ~MemHas(memory_cache', ck)
                       /\ last'.file_outcome # "unlink_error" => files'[ck] = NoFile ]_vars

\* C29: in every state reachable by sequential operations hits = memory_hits +
\* django_hits + file_hits, no counter ever decreases, and each completed get increases
\* exactly one of memory_hits, django_hits, file_hits and misses, by 1.
C29_CountersConsistent ==
    [][ LET d(c) == cache_stats'[c] - cache_stats[c]
        IN /\ cache_stats'.hits = cache_stats'.memory_hits + cache_stats'.django_hits
                                  + cache_stats'.file_hits
           /\ \A c \in DOMAIN cache_stats : d(c) >= 0
           /\ ( GetStep /\ ~last'.raised )
                 => /\ \A c \in {"memory_hits", "django_hits", "file_hits", "misses"} : d(c) \in {0, 1}
                    /\ d("memory_hits") + d("django_hits") + d("file_hits") + d("misses") = 1 ]_vars

\* a get has just been served by the file tier after an earlier get was a miss
C29_Witness ==
    /\ last.op = "get"
    /\ last.tier = "file"
    /\ cache_stats.file_hits = 1
    /\ cache_stats.misses = 1
    /\ cache_stats.hits = 1

\* C26: for a function wrapped by cached a result that is None or empty is
\* indistinguishable from "not cached": an invocation that finds such a result stored
\* re-executes the wrapped function and stores the result again, even while the stored
\* entry is fresh.
C26_NoneAndEmptyAreNotCached ==
    \A t \in Threads :
        ( /\ threads[t].op = "cached"
          /\ threads[t].pc = "done"
          /\ ~threads[t].raised
          /\ threads[t].cached_result \in {NoValue, ""} )
        => ( threads[t].func_calls = 1 /\ threads[t].set_calls = 1 )

\* C26 as amended: only None is indistinguishable from "not cached".  An invocation whose
\* get returns None, as a miss or as a hit on the stored None, re-executes the wrapped
\* function and stores its result again; an invocation that finds an empty result stored
\* returns it without calling the wrapped function.
C26_OnlyNoneIsNotCached ==
    \A t \in Threads :
        ( /\ threads[t].op = "cached"
          /\ threads[t].pc = "done"
          /\ ~threads[t].raised )
        => LET f == threads[t]
           IN /\ f.cached_result = NoValue
                    => /\ f.func_calls = 1
                       /\ f.set_calls = 1
                       /\ f.ret = f.result
                       /\ last.op = "set"
                       /\ last.cache_key = f.cache_key
                       /\ last.data = f.result
              /\ f.cached_result = ""
                    => /\ f.tier \in {"memory", "django", "file"}
                       /\ f.func_calls = 0
                       /\ f.set_calls = 0
                       /\ f.ret = ""

\* an invocation has found the stored None fresh in the memory tier, has called the
\* function again and has stored and returned the new result
C26_Witness ==
    \E t \in Threads :
        /\ threads[t].op = "cached" /\ threads[t].pc = "done"
        /\ threads[t].tier = "memory"
        /\ threads[t].cached_result = NoValue
        /\ threads[t].func_calls = 1
        /\ threads[t].ret = "A"
        /\ MemGet(memory_cache, threads[t].cache_key).data = "A"

\* C27: with no key_func, two distinct wrapped functions that use the same namespace and
\* are called with the same arguments never read or overwrite each other's cache entry:
\* their invocations go to different cache keys.
C27_FunctionsHaveOwnEntries ==
    \A t \in Threads :
        ( /\ threads[t].op = "cached"
          /\ threads[t].prev.func \in WrappedFunctions
          /\ threads[t].key_func = NoKeyFunc /\ threads[t].prev.key_func = NoKeyFunc
          /\ threads[t].func # threads[t].prev.func
          /\ threads[t].ns = threads[t].prev.ns
          /\ threads[t].args = threads[t].prev.args )
        => threads[t].cache_key # threads[t].prev.cache_key

\* C30: once delete(ns, k) has returned true and no set for the key starts afterwards,
\* the key stays absent from the memory tier and every get started after the delete
\* returned yields default, whatever the gets already in progress do.
C30_DeletedKeyStaysAbsent ==
    /\ \A k \in CacheKeys : write_log[k].deleted => ~MemHas(memory_cache, k)
    /\ \A t \in Threads :
          ( /\ threads[t].op = "get"
            /\ threads[t].pc = "done"
            /\ threads[t].after_delete
            /\ write_log[threads[t].cache_key].deleted )
          => threads[t].ret = Default

(***************************************************************************)
(* The methods as the sequences of instructions they execute, to follow    *)
(* who holds self._lock at each of them.  An instruction acquires or       *)
(* releases the lock, touches the memory map (with its size accounting and *)
(* access metadata), calls the Django cache, calls the file system, or is  *)
(* one half of a counter's += 1: the load of the old value or the store of *)
(* the new one.  Which branch a call takes depends on data the other       *)
(* specifications follow; here every branch is a possible call.            *)
(***************************************************************************)
LockThreads == {"t1", "t2"}

Instr(kind, arg) == [kind |-> kind, arg |-> arg]

\* self.cache_stats[counter] += 1
increment(counter) == << Instr("load", counter), Instr("store", counter) >>

\* with self._lock: (no entry: return) | (remove the least recently used, count the eviction)
_evict_memory_cache_code ==
    << Instr("acquire", "_evict_memory_cache"), Instr("memory", "evict") >>
        \o increment("evictions") \o << Instr("release", "_evict_memory_cache") >>

\* The size check returns False before the lock is taken; otherwise the lock is held
\* over the eviction and the store.
_set_memory_cache_code(fits, evicts) ==
    IF ~fits THEN << >>
    ELSE << Instr("acquire", "_set_memory_cache") >>
            \o (IF evicts THEN _evict_memory_cache_code ELSE << >>)
            \o << Instr("memory", "store"), Instr("release", "_set_memory_cache") >>

\* get, by the level that answers: the memory level under the lock, then cache.get, then
\* the file; a hit below the memory level promotes and then counts.
get_code(level, evicts) ==
    LET memory_level(hit) ==
            << Instr("acquire", "get"), Instr("memory", "lookup") >>
                \o (IF hit THEN increment("hits") \o increment("memory_hits") ELSE << >>)
                \o << Instr("release", "get") >>
        django_level == << Instr("django", "cache.get") >>
    IN  CASE level = "memory" -> memory_level(TRUE)
          [] level = "django" ->
                memory_level(FALSE) \o django_level \o _set_memory_cache_code(TRUE, evicts)
                    \o increment("hits") \o increment("django_hits")
          [] level = "file" ->
                memory_level(FALSE) \o django_level
                    \o << Instr("file", "exists"), Instr("file", "load"), Instr("django", "cache.set") >>
                    \o _set_memory_cache_code(TRUE, evicts)
                    \o increment("hits") \o increment("file_hits")
          [] level = "bad_file" ->
                memory_level(FALSE) \o django_level
                    \o << Instr("file", "exists"), Instr("file", "load"), Instr("file", "unlink") >>
                    \o increment("misses")
          [] level = "unlink_raises" ->
                memory_level(FALSE) \o django_level
                    \o << Instr("file", "exists"), Instr("file", "load"), Instr("file", "unlink"),
                          Instr("raise", "OSError") >>
          [] OTHER ->
                memory_level(FALSE) \o django_level \o << Instr("file", "exists") >>
                    \o increment("misses")

set_code(fits, evicts) ==
    _set_memory_cache_code(fits, evicts)
        \o << Instr("django", "cache.set"), Instr("file", "open"), Instr("file", "dump") >>

delete_code_locked_io ==
    << Instr("acquire", "delete"), Instr("memory", "remove"),
       Instr("django", "cache.delete"), Instr("file", "exists"), Instr("file", "unlink"),
       Instr("release", "delete") >>

delete_code ==
    << Instr("acquire", "delete"), Instr("memory", "remove"), Instr("release", "delete"),
       Instr("django", "cache.delete"), Instr("file", "exists"), Instr("file", "unlink") >>

clear_namespace_code ==
    << Instr("acquire", "clear_namespace"), Instr("memory", "remove"),
       Instr("release", "clear_namespace"), Instr("file", "glob"), Instr("file", "unlink") >>

cleanup_expired_code ==
    << Instr("acquire", "cleanup_expired"), Instr("memory", "remove"),
       Instr("release", "cleanup_expired"),
       Instr("file", "glob"), Instr("file", "load"), Instr("file", "unlink") >>

\* The calls a thread can make: the method and the instructions of one of its branches.
LockCalls ==
    { [op |-> "get", code |-> get_code(level, evicts)] :
          level \in {"memory", "django", "file", "bad_file", "unlink_raises", "miss"},
          evicts \in BOOLEAN }
    \cup { [op |-> "set", code |-> set_code(fits, evicts)] : fits \in BOOLEAN, evicts \in BOOLEAN }
    \cup { [op |-> "delete", code |-> delete_code],
           [op |-> "clear_namespace", code |-> clear_namespace_code],
           [op |-> "cleanup_expired", code |-> cleanup_expired_code] }

\* RLock.acquire returns at once when the lock is free or the caller already owns it.
can_acquire_not_reentrant(l, t) == l.owner = "-"

can_acquire(l, t) == l.owner \in {"-", t}

\* What the thread has done so far: the gets that returned, in all its calls.
gets_returned(t) == IF threads[t].pc = "idle" THEN 0 ELSE threads[t].gets

running(t) == threads[t].pc = "run"

\* The instruction the thread executes next.
instr(t) == threads[t].code[threads[t].at]

\* A thread with no call in progress calls a method.
begin(t, call) ==
    /\ free(t)
    /\ threads' = [threads EXCEPT ![t] =
          [op |-> call.op, pc |-> "run", code |-> call.code, at |-> 1, loaded |-> 0,
           gets |-> gets_returned(t)]]
    /\ ncalls' = ncalls + 1
    /\ UNCHANGED <<memory_cache, current_memory_size, django, files, cache_stats, now, last,
                   set_log, write_log, lock>>

\* The thread executes its next instruction; after the last one the call has returned.
step(t) ==
    /\ running(t)
    /\ LET frame == threads[t]
           i == instr(t)
           last_one == frame.at = Len(frame.code)
           loaded == IF i.kind = "load" THEN cache_stats[i.arg]
                     ELSE IF i.kind = "store" THEN 0 ELSE frame.loaded
       IN  /\ i.kind = "acquire" => can_acquire(lock, t)
           /\ lock' = CASE i.kind = "acquire" -> [owner |-> t, depth |-> lock.depth + 1]
                        [] i.kind = "release" ->
                              IF lock.depth = 1 THEN Unlocked
                              ELSE [lock EXCEPT !.depth = lock.depth - 1]
                        [] OTHER -> lock
           /\ cache_stats' = IF i.kind = "store"
                             THEN [cache_stats EXCEPT ![i.arg] = frame.loaded + 1]
                             ELSE cache_stats
           /\ threads' = [threads EXCEPT ![t] =
                 IF last_one
                 THEN [op |-> "-", pc |-> "done", code |-> << >>, at |-> 0, loaded |-> 0,
                       gets |-> IF frame.op = "get" /\ i.kind # "raise"
                                THEN frame.gets + 1 ELSE frame.gets]
                 ELSE [frame EXCEPT !.at = frame.at + 1, !.loaded = loaded]]
    /\ UNCHANGED <<memory_cache, current_memory_size, django, files, now, last, set_log,
                   write_log, ncalls>>

NextLock ==
    \/ \E t \in LockThreads, call \in LockCalls : ncalls < MaxLockCalls /\ begin(t, call)
    \/ \E t \in LockThreads : step(t)

SpecLock == Init /\ [][NextLock]_vars

\* Python's threads are all scheduled: a thread that can execute its next instruction
\* does so sooner or later.
FairSpecLock == SpecLock /\ \A t \in LockThreads : WF_vars(step(t))

\* C22: a thread that is at a call of the Django cache or of the file system does not
\* hold self._lock, in any method.
C22_NoLockAcrossIO ==
    \A t \in LockThreads :
        (running(t) /\ instr(t).kind \in {"django", "file"}) => lock.owner # t

\* C22: a thread is at cache.delete inside delete while the other thread holds the lock.
C22_Witness ==
    \E t \in LockThreads, u \in LockThreads :
        /\ running(t) /\ threads[t].op = "delete" /\ instr(t).kind = "django"
        /\ u # t /\ lock.owner = u

\* C23: a thread that mutates the memory map or stores a counter holds self._lock, so
\* once all calls have returned, hits + misses is the number of gets that returned.
C23_MutationsUnderLock ==
    /\ \A t \in LockThreads :
          (running(t) /\ instr(t).kind \in {"memory", "store"}) => lock.owner = t
    /\ (\A t \in LockThreads : free(t))
          => cache_stats.hits + cache_stats.misses
                = gets_returned("t1") + gets_returned("t2")

\* C28: every call that has started returns: the calls being finitely many, from some
\* moment on no thread is inside a call.
C28_EveryCallReturns == <>[](\A t \in LockThreads : free(t))

\* C28: _set_memory_cache holds the lock and _evict_memory_cache has taken it again.
C28_Witness ==
    \E t \in LockThreads :
        /\ lock = [owner |-> t, depth |-> 2]
        /\ running(t) /\ instr(t) = Instr("memory", "evict")

====
